---- MODULE Spec2Model ----
(***************************************************************************)
(* A model of the MAESTRO risk-quantification core:                        *)
(*   core/risk_calculator.py      RiskCalculator (the scalar engine that   *)
(*                                MAESTROEngine calls)                     *)
(*   core/monte_carlo_estimator.py MonteCarloEstimator (sampling on top of *)
(*                                the process-wide numpy generator)        *)
(*   core/maestro_engine.py       MAESTROEngine.assess_workflow_from_yaml  *)
(*   models/maestro_constants.py  the lookup tables                        *)
(*                                                                         *)
(* Python floats are modelled as exact rationals [n, d] in lowest terms;   *)
(* the rounding of IEEE doubles is not modelled.                           *)
(***************************************************************************)
EXTENDS Integers, Sequences, FiniteSets, TLC

VARIABLES
    \* ---- RiskCalculator.calculate_risk: inputs, locals, position
    workflow,                 \* the ParsedWorkflow handed to calculate_risk
    vulnerabilities,          \* the list of vulnerability dicts
    pc,                       \* position inside calculate_risk
    vulnerabilities_by_layer, \* local of calculate_risk (line 67)
    layer_scores,             \* local of calculate_risk (line 70)
    total_wei,                \* local of calculate_risk (line 73)
    total_rps,                \* local of calculate_risk (line 76)
    risk_level,               \* local of calculate_risk (line 79)
    recommendations,          \* local of calculate_risk (line 82)
    result,                   \* the returned RiskAssessmentResult, or NoValue
    risk_thresholds,          \* RiskCalculator.risk_thresholds, set by __init__
    \* ---- MonteCarloEstimator
    np_random,                \* state of numpy's process-wide generator (np.random)
    estimators,               \* the MonteCarloEstimator instances and their calls
    \* ---- MAESTROEngine
    reports,                  \* the reports assess_workflow_from_yaml returned so far
    \* ---- web/streamlit_app.py
    custom_parameters,        \* st.session_state.custom_parameters
    \* ---- the logging module
    log_records               \* the records the modelled code handed to logging

calcVars == <<workflow, vulnerabilities, pc, vulnerabilities_by_layer, layer_scores,
              total_wei, total_rps, risk_level, recommendations, result,
              risk_thresholds>>

mcVars == <<np_random, estimators>>

engVars == <<reports>>

webVars == <<custom_parameters>>

logVars == <<log_records>>

vars == <<calcVars, mcVars, engVars, webVars, logVars>>

-----------------------------------------------------------------------------
(* Bounds of the model *)

\* longest vulnerability list drawn as input of calculate_risk
MaxVulns == 2

\* _determine_risk_level is applied to wei in {0, 0.1, ..., MaxWeiTenths/10}
MaxWeiTenths == 15

\* ... and to rps in 0..MaxRps
MaxRps == 80

\* MonteCarloParams.n_simulations of the modelled estimators (10000 by default)
NSim == 2

\* calls of estimate_vulnerability_parameters made on one estimator instance
MaxCalls == 2

\* significant bits of the binary floating-point format in which the additions of
\* total_rps += contribution are rounded (53 in a Python float)
MantissaBits == 8

\* longest vulnerability list whose orders are compared
MaxPermuted == 3

-----------------------------------------------------------------------------
(* Exact rationals standing for Python floats *)

Abs(x) == IF x < 0 THEN -x ELSE x

RECURSIVE GCD(_, _)
GCD(a, b) == IF b = 0 THEN a ELSE GCD(b, a % b)

\* the rational n/d (d > 0) in lowest terms
R(n, d) == LET g == GCD(Abs(n), d) IN [n |-> n \div g, d |-> d \div g]

RInt(i) == [n |-> i, d |-> 1]

RAdd(a, b) ==
    LET g == GCD(a.d, b.d)
    IN  R(a.n * (b.d \div g) + b.n * (a.d \div g), (a.d \div g) * b.d)

RNeg(a) == [n |-> -a.n, d |-> a.d]
RSub(a, b) == RAdd(a, RNeg(b))

RMul(a, b) ==
    LET g1 == GCD(Abs(a.n), b.d)
        g2 == GCD(Abs(b.n), a.d)
    IN  R((a.n \div g1) * (b.n \div g2), (a.d \div g2) * (b.d \div g1))

\* a / b for b > 0
RDiv(a, b) == RMul(a, [n |-> b.d, d |-> b.n])

\* comparisons over the least common denominator
RLeq(a, b) ==
    LET g == GCD(a.d, b.d) IN a.n * (b.d \div g) <= b.n * (a.d \div g)
RLt(a, b) ==
    LET g == GCD(a.d, b.d) IN a.n * (b.d \div g) < b.n * (a.d \div g)
RGeq(a, b) == RLeq(b, a)
RGt(a, b)  == RLt(b, a)
RMin(a, b) == IF RLeq(a, b) THEN a ELSE b
RMax(a, b) == IF RGeq(a, b) THEN a ELSE b

\* sum of f[k] for k in lo..hi
RECURSIVE RSum(_, _, _)
RSum(f, lo, hi) == IF lo > hi THEN RInt(0) ELSE RAdd(f[lo], RSum(f, lo + 1, hi))

\* sum of the rationals of a sequence
RECURSIVE RSumSeq(_)
RSumSeq(s) == IF s = <<>> THEN RInt(0) ELSE RAdd(Head(s), RSumSeq(Tail(s)))

\* sum of the integers of a sequence
RECURSIVE SumSeq(_)
SumSeq(s) == IF s = <<>> THEN 0 ELSE Head(s) + SumSeq(Tail(s))

-----------------------------------------------------------------------------
(* Python dictionaries *)

\* a key that a dict does not hold (dict.get then yields its default or None)
Absent == "<absent>"
NoValue == "<none>"

\* the outcome of a call that raised
Raised(what) == [raised |-> what]

\* a value of an unhashable Python type (a list, a dict or a set)
UnhashableValue == "<unhashable>"

\* d.get(k, default) and `k in d` raise TypeError for such a key
RaisesTypeError(k) == k = UnhashableValue

\* d.get(k, default) for a hashable key k
DictGet(d, k, default) == IF k \in DOMAIN d THEN d[k] ELSE default

\* vuln.get(field, default) on a vulnerability record whose field may be absent
VulnGet(vuln, field, default) ==
    IF vuln[field] = Absent THEN default ELSE vuln[field]

-----------------------------------------------------------------------------
(* models/maestro_constants.py *)

L1_FOUNDATION_MODELS == 1
L2_DATA_OPERATIONS   == 2
L3_AGENT_FRAMEWORKS  == 3
L4_DEPLOYMENT        == 4
L5_OBSERVABILITY     == 5
L6_COMPLIANCE        == 6
L7_ECOSYSTEM         == 7

MAESTROLayer == L1_FOUNDATION_MODELS .. L7_ECOSYSTEM

MAESTRO_LAYER_WEIGHTS ==
    (L1_FOUNDATION_MODELS :> R(15, 100)) @@ (L2_DATA_OPERATIONS :> R(10, 100)) @@
    (L3_AGENT_FRAMEWORKS :> R(20, 100)) @@ (L4_DEPLOYMENT :> R(18, 100)) @@
    (L5_OBSERVABILITY :> R(12, 100)) @@ (L6_COMPLIANCE :> R(15, 100)) @@
    (L7_ECOSYSTEM :> R(10, 100))

MAESTRO_EXPOSURE_INDEX ==
    (L1_FOUNDATION_MODELS :> R(30, 100)) @@ (L2_DATA_OPERATIONS :> R(25, 100)) @@
    (L3_AGENT_FRAMEWORKS :> R(45, 100)) @@ (L4_DEPLOYMENT :> R(40, 100)) @@
    (L5_OBSERVABILITY :> R(35, 100)) @@ (L6_COMPLIANCE :> R(50, 100)) @@
    (L7_ECOSYSTEM :> R(20, 100))

VULNERABILITY_LAYER_MAPPING ==
    ("prompt_injection" :> L1_FOUNDATION_MODELS) @@
    ("model_poisoning" :> L1_FOUNDATION_MODELS) @@
    ("bias_amplification" :> L1_FOUNDATION_MODELS) @@
    ("data_leakage" :> L2_DATA_OPERATIONS) @@
    ("data_poisoning" :> L2_DATA_OPERATIONS) @@
    ("privacy_violation" :> L2_DATA_OPERATIONS) @@
    ("tool_poisoning" :> L3_AGENT_FRAMEWORKS) @@
    ("agent_impersonation" :> L3_AGENT_FRAMEWORKS) @@
    ("protocol_manipulation" :> L3_AGENT_FRAMEWORKS) @@
    ("sandbox_escape" :> L4_DEPLOYMENT) @@
    ("privilege_escalation" :> L4_DEPLOYMENT) @@
    ("network_exposure" :> L4_DEPLOYMENT) @@
    ("monitoring_evasion" :> L5_OBSERVABILITY) @@
    ("log_tampering" :> L5_OBSERVABILITY) @@
    ("audit_trail_manipulation" :> L5_OBSERVABILITY) @@
    ("compliance_violation" :> L6_COMPLIANCE) @@
    ("regulatory_breach" :> L6_COMPLIANCE) @@
    ("policy_bypass" :> L6_COMPLIANCE) @@
    ("supply_chain_attack" :> L7_ECOSYSTEM) @@
    ("third_party_compromise" :> L7_ECOSYSTEM) @@
    ("dependency_vulnerability" :> L7_ECOSYSTEM)

VULNERABILITY_SEVERITY_SCALE ==
    ("info" :> 1) @@ ("low" :> 2) @@ ("medium" :> 4) @@ ("high" :> 7) @@
    ("critical" :> 10)

ThreatRow(ac, impact, vs, pcf, layer) ==
    [ac |-> ac, impact |-> impact, vs |-> vs, pc |-> pcf, layer |-> layer]

CORE_THREAT_MATRIX ==
    ("model_extraction" :> ThreatRow(2, 3, 6, 2, L1_FOUNDATION_MODELS)) @@
    ("prompt_injection" :> ThreatRow(1, 5, 9, 3, L1_FOUNDATION_MODELS)) @@
    ("bias_amplification" :> ThreatRow(1, 5, 9, 3, L1_FOUNDATION_MODELS)) @@
    ("model_poisoning" :> ThreatRow(2, 3, 6, 2, L1_FOUNDATION_MODELS)) @@
    ("data_poisoning" :> ThreatRow(2, 4, 7, 3, L2_DATA_OPERATIONS)) @@
    ("data_leakage" :> ThreatRow(1, 5, 8, 2, L2_DATA_OPERATIONS)) @@
    ("privacy_violation" :> ThreatRow(1, 5, 8, 2, L2_DATA_OPERATIONS)) @@
    ("tool_poisoning" :> ThreatRow(1, 5, 9, 3, L3_AGENT_FRAMEWORKS)) @@
    ("agent_impersonation" :> ThreatRow(2, 4, 7, 3, L3_AGENT_FRAMEWORKS)) @@
    ("protocol_manipulation" :> ThreatRow(1, 5, 9, 3, L3_AGENT_FRAMEWORKS)) @@
    ("server_compromise" :> ThreatRow(3, 5, 8, 2, L4_DEPLOYMENT)) @@
    ("sandbox_escape" :> ThreatRow(3, 5, 8, 2, L4_DEPLOYMENT)) @@
    ("privilege_escalation" :> ThreatRow(3, 5, 8, 2, L4_DEPLOYMENT)) @@
    ("network_exposure" :> ThreatRow(1, 3, 5, 2, L4_DEPLOYMENT)) @@
    ("monitoring_evasion" :> ThreatRow(3, 4, 6, 1, L5_OBSERVABILITY)) @@
    ("log_tampering" :> ThreatRow(3, 4, 6, 1, L5_OBSERVABILITY)) @@
    ("audit_trail_manipulation" :> ThreatRow(3, 4, 6, 1, L5_OBSERVABILITY)) @@
    ("compliance_violation" :> ThreatRow(1, 5, 8, 2, L6_COMPLIANCE)) @@
    ("regulatory_breach" :> ThreatRow(1, 5, 8, 2, L6_COMPLIANCE)) @@
    ("policy_bypass" :> ThreatRow(1, 5, 9, 3, L6_COMPLIANCE)) @@
    ("supply_chain_attack" :> ThreatRow(2, 5, 8, 3, L7_ECOSYSTEM)) @@
    ("third_party_compromise" :> ThreatRow(3, 5, 7, 3, L7_ECOSYSTEM)) @@
    ("dependency_vulnerability" :> ThreatRow(2, 5, 8, 3, L7_ECOSYSTEM))

DEFAULT_THREAT_VALUES == [ac |-> 2, impact |-> 3, vs |-> 5, pc |-> 2]

\* the initial st.session_state.custom_parameters (streamlit_app.py lines 213-218);
\* the cost weights, which the risk model does not read, are left out
DefaultParameters ==
    [layer_weights |-> MAESTRO_LAYER_WEIGHTS, exposure_index |-> MAESTRO_EXPOSURE_INDEX]

-----------------------------------------------------------------------------
(* core/risk_calculator.py: RiskCalculator *)

\* thresholds with the values of 'medium' and 'high' exchanged
RiskCalculatorInit_Swapped ==
    [low |-> R(0, 1), medium |-> R(55, 100), high |-> R(30, 100),
     critical |-> R(75, 100)]

\* RiskCalculator.__init__: the thresholds 0.0 / 0.30 / 0.55 / 0.75
RiskCalculatorInit ==
    [low |-> R(0, 1), medium |-> R(30, 100), high |-> R(55, 100),
     critical |-> R(75, 100)]

\* the layer one vulnerability is appended to (lines 99-100)
LayerOfVuln(vuln) ==
    LET vuln_type == VulnGet(vuln, "type", "unknown")
    IN  DictGet(VULNERABILITY_LAYER_MAPPING, vuln_type, L7_ECOSYSTEM)

\* a grouping without the L7_ECOSYSTEM fallback: unmapped types are dropped
GroupVulnerabilitiesByLayer_NoFallback(vulns) ==
    [layer \in MAESTROLayer |->
        SelectSeq(vulns, LAMBDA vuln :
            /\ VulnGet(vuln, "type", "unknown") \in DOMAIN VULNERABILITY_LAYER_MAPPING
            /\ LayerOfVuln(vuln) = layer)]

\* _group_vulnerabilities_by_layer: one list per layer, input order kept
GroupVulnerabilitiesByLayer(vulns) ==
    [layer \in MAESTROLayer |->
        SelectSeq(vulns, LAMBDA vuln : LayerOfVuln(vuln) = layer)]

\* the local complexity_mapping of _calculate_average_attack_complexity
complexity_mapping ==
    ("data_leakage" :> 1) @@ ("compliance_violation" :> 1) @@
    ("privacy_violation" :> 1) @@ ("prompt_injection" :> 2) @@
    ("tool_poisoning" :> 2) @@ ("agent_impersonation" :> 2) @@
    ("privilege_escalation" :> 2) @@ ("monitoring_evasion" :> 3) @@
    ("model_poisoning" :> 2) @@ ("supply_chain_attack" :> 3) @@
    ("sandbox_escape" :> 3)

\* a severity fallback that adds nothing for the remaining severities
ComplexityOfVuln_ZeroFallback(vuln) ==
    LET severity  == VulnGet(vuln, "severity", "medium")
        vuln_type == VulnGet(vuln, "type", "unknown")
    IN  IF vuln_type \in DOMAIN complexity_mapping
        THEN complexity_mapping[vuln_type]
        ELSE IF severity = "critical" THEN 1
        ELSE IF severity = "high" THEN 2
        ELSE 0

\* what one vulnerability adds to complexity_sum (lines 145-178)
ComplexityOfVuln(vuln) ==
    LET severity  == VulnGet(vuln, "severity", "medium")
        vuln_type == VulnGet(vuln, "type", "unknown")
    IN  IF vuln_type \in DOMAIN complexity_mapping
        THEN complexity_mapping[vuln_type]
        ELSE IF severity = "critical" THEN 1
        ELSE IF severity = "high" THEN 2
        ELSE 3

\* an average attack complexity that is 0 for a layer without vulnerabilities
CalculateAverageAttackComplexity_EmptyZero(vulns) ==
    IF vulns = <<>>
    THEN R(0, 1)
    ELSE R(SumSeq([i \in 1..Len(vulns) |-> ComplexityOfVuln(vulns[i])]), Len(vulns))

\* _calculate_average_attack_complexity
CalculateAverageAttackComplexity(vulns) ==
    IF vulns = <<>>
    THEN R(3, 1)
    ELSE R(SumSeq([i \in 1..Len(vulns) |-> ComplexityOfVuln(vulns[i])]), Len(vulns))

sensitivity_multipliers ==
    ("low" :> R(8, 10)) @@ ("medium" :> R(10, 10)) @@ ("high" :> R(13, 10)) @@
    ("critical" :> R(16, 10))

critical_frameworks == {"SOX", "PCI_DSS", "GDPR", "HIPAA", "BASEL_III"}

layer_multipliers_financial ==
    (L1_FOUNDATION_MODELS :> R(12, 10)) @@ (L2_DATA_OPERATIONS :> R(12, 10)) @@
    (L3_AGENT_FRAMEWORKS :> R(12, 10)) @@ (L4_DEPLOYMENT :> R(11, 10)) @@
    (L5_OBSERVABILITY :> R(9, 10)) @@ (L6_COMPLIANCE :> R(11, 10)) @@
    (L7_ECOSYSTEM :> R(9, 10))

layer_multipliers_other ==
    (L1_FOUNDATION_MODELS :> R(11, 10)) @@ (L2_DATA_OPERATIONS :> R(11, 10)) @@
    (L3_AGENT_FRAMEWORKS :> R(12, 10)) @@ (L4_DEPLOYMENT :> R(10, 10)) @@
    (L5_OBSERVABILITY :> R(8, 10)) @@ (L6_COMPLIANCE :> R(12, 10)) @@
    (L7_ECOSYSTEM :> R(9, 10))

\* `kw in workflow.name.lower()`: a name is modelled by the keywords it contains
NameHas(wf, kw) == kw \in wf.name

\* number of vulnerabilities whose severity field equals sev (v.get('severity') == sev)
CountSeverity(vulns, sev) ==
    Len(SelectSeq(vulns, LAMBDA v : v.severity = sev))

\* _calculate_business_impact
CalculateBusinessImpact(wf, layer, vulns) ==
    LET sensitivity == DictGet(wf.metadata, "sensitivity", "medium")
        b1 == RMul(R(15, 10), DictGet(sensitivity_multipliers, sensitivity, R(1, 1)))
        b2 == IF NameHas(wf, "financial") \/ NameHas(wf, "payment")
              THEN RAdd(b1, R(1, 1)) ELSE b1
        b3 == IF NameHas(wf, "customer") \/ NameHas(wf, "user")
              THEN RAdd(b2, R(8, 10)) ELSE b2
        b4 == IF Len(wf.steps) > 5 THEN RAdd(b3, R(5, 10)) ELSE b3
        compliance_frameworks == DictGet(wf.metadata, "compliance_frameworks", {})
        b5 == IF compliance_frameworks \cap critical_frameworks # {}
              THEN RAdd(b4, R(8, 10)) ELSE b4
        layer_multipliers == IF NameHas(wf, "financial")
                             THEN layer_multipliers_financial
                             ELSE layer_multipliers_other
        b6 == RMul(b5, DictGet(layer_multipliers, layer, R(1, 1)))
        b7 == IF vulns # <<>>
              THEN RAdd(b6, RAdd(RMul(RInt(CountSeverity(vulns, "critical")), R(5, 10)),
                                 RMul(RInt(CountSeverity(vulns, "high")), R(3, 10))))
              ELSE b6
    IN  RMin(b7, R(4, 1))

\* _calculate_wei_contribution
CalculateWeiContribution(attack_complexity, business_impact, layer) ==
    LET ac_inverse   == RDiv(R(1, 1), RMax(attack_complexity, R(1, 10)))
        layer_weight == MAESTRO_LAYER_WEIGHTS[layer]
    IN  RMul(RMul(ac_inverse, business_impact), layer_weight)

\* _estimate_protocol_coupling
high_coupling ==
    {"agent_impersonation", "protocol_manipulation", "tool_poisoning",
     "supply_chain_attack"}

medium_coupling ==
    {"prompt_injection", "data_leakage", "sandbox_escape", "privilege_escalation"}

EstimateProtocolCoupling(vulnerability) ==
    LET vuln_type == VulnGet(vulnerability, "type", "unknown")
    IN  IF vuln_type \in high_coupling THEN 3
        ELSE IF vuln_type \in medium_coupling THEN 2
        ELSE 1

\* a vs_score that falls back to 1 instead of 4
SeverityScore_DefaultInfo(vuln) ==
    LET severity == VulnGet(vuln, "severity", "medium")
    IN  DictGet(VULNERABILITY_SEVERITY_SCALE, severity, 1)

\* the vs_score of one vulnerability (lines 274-275)
SeverityScore(vuln) ==
    LET severity == VulnGet(vuln, "severity", "medium")
    IN  DictGet(VULNERABILITY_SEVERITY_SCALE, severity, 4)

\* a contribution averaged over the layer's findings instead of summed
CalculateRpsContribution_Mean(layer, vulns) ==
    IF vulns = <<>>
    THEN R(0, 1)
    ELSE RDiv(RSumSeq([i \in 1..Len(vulns) |->
                 RMul(RInt(SeverityScore(vulns[i]) * EstimateProtocolCoupling(vulns[i])),
                      MAESTRO_EXPOSURE_INDEX[layer])]),
              RInt(Len(vulns)))

\* _calculate_rps_contribution
CalculateRpsContribution(layer, vulns) ==
    IF vulns = <<>>
    THEN R(0, 1)
    ELSE LET layer_exposure == MAESTRO_EXPOSURE_INDEX[layer]
         IN  RSumSeq([i \in 1..Len(vulns) |->
                 RMul(RInt(SeverityScore(vulns[i]) * EstimateProtocolCoupling(vulns[i])),
                      layer_exposure)])

\* layer scores whose vulnerability_count is len(vulnerabilities_by_layer), the
\* number of layers, instead of len(layer_vulns)
CalculateLayerScores_CountAll(wf, vbl) ==
    [layer \in MAESTROLayer |->
        LET layer_vulns       == vbl[layer]
            attack_complexity == CalculateAverageAttackComplexity(layer_vulns)
            business_impact   == CalculateBusinessImpact(wf, layer, layer_vulns)
        IN  [layer |-> layer,
             attack_complexity |-> attack_complexity,
             business_impact |-> business_impact,
             vulnerability_count |-> Cardinality(DOMAIN vbl),
             wei_contribution |->
                 CalculateWeiContribution(attack_complexity, business_impact, layer),
             rps_contribution |-> CalculateRpsContribution(layer, layer_vulns)]]

\* _calculate_layer_scores
CalculateLayerScores(wf, vbl) ==
    [layer \in MAESTROLayer |->
        LET layer_vulns       == vbl[layer]
            attack_complexity == CalculateAverageAttackComplexity(layer_vulns)
            business_impact   == CalculateBusinessImpact(wf, layer, layer_vulns)
        IN  [layer |-> layer,
             attack_complexity |-> attack_complexity,
             business_impact |-> business_impact,
             vulnerability_count |-> Len(layer_vulns),
             wei_contribution |->
                 CalculateWeiContribution(attack_complexity, business_impact, layer),
             rps_contribution |-> CalculateRpsContribution(layer, layer_vulns)]]

Max(a, b) == IF a >= b THEN a ELSE b

\* a total that is not normalized by the node count
CalculateMaestroWei_Unnormalized(scores, total_workflow_nodes) ==
    RSum([l \in MAESTROLayer |-> scores[l].wei_contribution], 1, 7)

\* _calculate_maestro_wei
CalculateMaestroWei(scores, total_workflow_nodes) ==
    LET total_wei_sum ==
            RSum([l \in MAESTROLayer |-> scores[l].wei_contribution], 1, 7)
    IN  RDiv(total_wei_sum, RInt(Max(total_workflow_nodes, 1)))

\* _calculate_maestro_rps
CalculateMaestroRps(scores, vbl) ==
    RSum([l \in MAESTROLayer |-> scores[l].rps_contribution], 1, 7)

\* a combined risk whose RPS term wraps around at 30 (rps % 30 instead of rps / 30)
CombinedRisk_Wrapping(wei, rps) ==
    LET normalized_rps == RDiv(RSub(rps, RInt(30 * ((rps.n \div rps.d) \div 30))), R(30, 1))
    IN  RAdd(RMul(wei, R(7, 10)), RMul(normalized_rps, R(3, 10)))

\* combined_risk of _determine_risk_level (lines 330-331)
CombinedRisk(wei, rps) ==
    LET normalized_rps == RDiv(rps, R(30, 1))
    IN  RAdd(RMul(wei, R(7, 10)), RMul(normalized_rps, R(3, 10)))

\* a classification with strict comparisons (> instead of >=)
DetermineRiskLevel_Strict(thresholds, wei, rps) ==
    LET combined_risk == CombinedRisk(wei, rps)
    IN  IF RGt(combined_risk, thresholds.critical) THEN "critical"
        ELSE IF RGt(combined_risk, thresholds.high) THEN "high"
        ELSE IF RGt(combined_risk, thresholds.medium) THEN "medium"
        ELSE "low"

\* _determine_risk_level
DetermineRiskLevel(thresholds, wei, rps) ==
    LET combined_risk == CombinedRisk(wei, rps)
    IN  IF RGeq(combined_risk, thresholds.critical) THEN "critical"
        ELSE IF RGeq(combined_risk, thresholds.high) THEN "high"
        ELSE IF RGeq(combined_risk, thresholds.medium) THEN "medium"
        ELSE "low"

\* cli/cli_app.py, display_summary: the literals its risk level is compared with
\* (lines 372-376)
display_summary_thresholds ==
    [medium |-> R(219, 1000), high |-> R(481, 1000), critical |-> R(527, 1000)]

\* the risk level display_summary prints for the scores wei and rps (lines 367-378)
DisplaySummaryRiskLevel(wei, rps) ==
    LET combined_risk == CombinedRisk(wei, rps)
    IN  IF RGeq(combined_risk, display_summary_thresholds.critical) THEN "CRITICAL RISK"
        ELSE IF RGeq(combined_risk, display_summary_thresholds.high) THEN "HIGH RISK"
        ELSE IF RGeq(combined_risk, display_summary_thresholds.medium) THEN "MEDIUM RISK"
        ELSE "LOW RISK"

\* the table of _get_layer_recommendations
layer_recommendations ==
    (L1_FOUNDATION_MODELS :>
        <<"Implement robust prompt injection filters and validation",
          "Deploy model output sanitization and content filtering",
          "Establish model bias monitoring and mitigation controls">>) @@
    (L2_DATA_OPERATIONS :>
        <<"Implement data anonymization and pseudonymization techniques",
          "Deploy vector database access controls and encryption",
          "Establish data lineage tracking and audit capabilities">>) @@
    (L3_AGENT_FRAMEWORKS :>
        <<"Implement agent authentication and authorization mechanisms",
          "Deploy tool validation and sandboxing for agent interactions",
          "Establish secure communication protocols between agents">>) @@
    (L4_DEPLOYMENT :>
        <<"Implement container security and runtime protection",
          "Deploy zero-trust networking and micro-segmentation",
          "Establish secure deployment pipelines and infrastructure hardening">>) @@
    (L5_OBSERVABILITY :>
        <<"Deploy AI-specific security monitoring and analytics",
          "Implement behavioral anomaly detection for agents",
          "Establish comprehensive audit logging and forensic capabilities">>) @@
    (L6_COMPLIANCE :>
        <<"Implement automated compliance monitoring and reporting",
          "Deploy policy engines for regulatory requirement enforcement",
          "Establish governance frameworks for AI/ML operations">>) @@
    (L7_ECOSYSTEM :>
        <<"Implement third-party agent security assessment and vetting",
          "Deploy supply chain security scanning and monitoring",
          "Establish dependency management and vulnerability tracking">>)

\* s[:k]
Take(s, k) == SubSeq(s, 1, IF Len(s) < k THEN Len(s) ELSE k)

\* layer recommendations without the cut to 2 per layer
GetLayerRecommendations_Uncut(layer, score, vulns) ==
    DictGet(layer_recommendations, layer, <<>>)

\* _get_layer_recommendations
GetLayerRecommendations(layer, score, vulns) ==
    Take(DictGet(layer_recommendations, layer, <<>>), 2)

general_recommendations ==
    <<"Implement comprehensive logging and monitoring across all workflow steps",
      "Establish regular security assessments and vulnerability scanning",
      "Deploy defense-in-depth strategies across MAESTRO layers",
      "Maintain updated incident response procedures for agentic workflows">>

\* the sort key of _generate_recommendations (line 349)
ContributionKey(score) == RAdd(score.wei_contribution, score.rps_contribution)

\* a sort without reverse=True: ascending keys
SortedLayers_Ascending(scores) ==
    LET Before(m, l) ==
            \/ RLt(ContributionKey(scores[m]), ContributionKey(scores[l]))
            \/ /\ ContributionKey(scores[m]) = ContributionKey(scores[l])
               /\ m < l
        Rank(l) == Cardinality({m \in MAESTROLayer : Before(m, l)}) + 1
    IN  [i \in 1..7 |-> CHOOSE l \in MAESTROLayer : Rank(l) = i]

\* sorted(layer_scores.items(), key=..., reverse=True): a stable sort, so layers of
\* equal key keep the dict's order L1..L7
SortedLayers(scores) ==
    LET Before(m, l) ==
            \/ RGt(ContributionKey(scores[m]), ContributionKey(scores[l]))
            \/ /\ ContributionKey(scores[m]) = ContributionKey(scores[l])
               /\ m < l
        Rank(l) == Cardinality({m \in MAESTROLayer : Before(m, l)}) + 1
    IN  [i \in 1..7 |-> CHOOSE l \in MAESTROLayer : Rank(l) = i]

RECURSIVE Flatten(_)
Flatten(ss) == IF ss = <<>> THEN <<>> ELSE Head(ss) \o Flatten(Tail(ss))

\* _generate_recommendations
GenerateRecommendations(scores, vbl) ==
    LET sorted_layers == SortedLayers(scores)
        top == Take(sorted_layers, 3)
        specific == Flatten([i \in 1..Len(top) |->
                        IF vbl[top[i]] # <<>>
                        THEN GetLayerRecommendations(top[i], scores[top[i]], vbl[top[i]])
                        ELSE <<>>])
    IN  Take(specific \o general_recommendations, 10)

-----------------------------------------------------------------------------
(* Inputs of calculate_risk *)

Vuln(t, sev) == [type |-> t, severity |-> sev]

\* findings the vulnerability lists are drawn from: every layer, every branch of the
\* complexity, coupling and severity lookups, unmapped and missing types and
\* severities
InputVulns ==
    { Vuln("prompt_injection", "high"),
      Vuln("bias_amplification", "critical"),
      Vuln("data_leakage", "medium"),
      Vuln("tool_poisoning", "high"),
      Vuln("sandbox_escape", "critical"),
      Vuln("monitoring_evasion", "low"),
      Vuln("compliance_violation", "info"),
      Vuln("supply_chain_attack", "medium"),
      Vuln("model_extraction", "high"),
      Vuln("custom_finding", "critical"),
      Vuln("custom_finding", Absent),
      Vuln(Absent, "urgent") }

\* all lists over S of length 0..n
SeqsUpTo(S, n) == UNION {[1..k -> S] : k \in 0..n}

\* a step of a workflow handed straight to calculate_risk (only len(steps) is read)
\* a string of a step: its text and the searched-for substrings it contains
Text(text, has) == [text |-> text, has |-> has]

\* a WorkflowStep; params is the set of searched-for substrings of str(params).lower()
WorkflowStep(step_id, agent, action, params, input_from, dependencies) ==
    [step_id |-> step_id, agent |-> agent, action |-> action, params |-> params,
     input_from |-> input_from, dependencies |-> dependencies]

PlainStep ==
    WorkflowStep("step", Text("Agent", {}), Text("noop", {}), {}, Absent, <<>>)

Steps(n) == [i \in 1..n |-> PlainStep]

\* workflow.metadata; frameworks is <<>> (no such key) or <<the list>>
Meta(sens, frameworks) ==
    (IF sens = Absent THEN <<>> ELSE ("sensitivity" :> sens)) @@
    (IF frameworks = <<>> THEN <<>> ELSE ("compliance_frameworks" :> frameworks[1]))

Workflow(name, sens, frameworks, n) ==
    [name |-> name, metadata |-> Meta(sens, frameworks), steps |-> Steps(n)]

\* the keyword sets of the names workflows are drawn from
InputNames ==
    { {}, {"financial"}, {"payment"}, {"customer"}, {"user"},
      {"financial", "customer"}, {"payment", "user"} }

InputSensitivities == {"low", "medium", "high", "critical", "secret", Absent}

InputFrameworks == {<<>>, <<{}>>, <<{"ISO27001"}>>, <<{"GDPR"}>>, <<{"SOX", "ISO27001"}>>}

\* numbers of steps: none, one, the two sides of the `> 5` bonus, and ten
InputStepCounts == {0, 1, 5, 6, 10}

\* the workflows assessed together with non-empty vulnerability lists
InputWorkflows ==
    { Workflow({}, Absent, <<>>, 0),
      Workflow({"financial", "customer"}, "critical", <<{"GDPR"}>>, 1),
      Workflow({"payment"}, "high", <<{"ISO27001"}>>, 6),
      Workflow({"user"}, "low", <<>>, 10) }

\* every workflow shape, for the assessments of an empty vulnerability list
AllWorkflows ==
    { Workflow(nm, s, f, n) : nm \in InputNames, s \in InputSensitivities,
                              f \in InputFrameworks, n \in InputStepCounts }

-----------------------------------------------------------------------------
(* RiskCalculator.calculate_risk, statement by statement *)

CalcStart(wf, vulns) ==
    /\ workflow = wf
    /\ vulnerabilities = vulns
    /\ risk_thresholds = RiskCalculatorInit
    /\ pc = "start"
    /\ vulnerabilities_by_layer = NoValue
    /\ layer_scores = NoValue
    /\ total_wei = NoValue
    /\ total_rps = NoValue
    /\ risk_level = NoValue
    /\ recommendations = NoValue
    /\ result = NoValue
    /\ np_random = 0
    /\ estimators = NoValue
    /\ reports = <<>>
    /\ custom_parameters = DefaultParameters
    /\ log_records = <<>>

Init ==
    \E wf \in InputWorkflows : \E vulns \in SeqsUpTo(InputVulns, MaxVulns) :
        CalcStart(wf, vulns)

\* line 67; VULNERABILITY_LAYER_MAPPING.get(vuln_type, ...) (line 100) raises
\* TypeError for a type that is not hashable, and the exception leaves calculate_risk
GroupStep ==
    /\ pc = "start"
    /\ IF \E i \in DOMAIN vulnerabilities :
              RaisesTypeError(VulnGet(vulnerabilities[i], "type", "unknown"))
       THEN /\ pc' = "raised"
            /\ result' = Raised("TypeError: unhashable type")
            /\ UNCHANGED vulnerabilities_by_layer
       ELSE /\ vulnerabilities_by_layer' = GroupVulnerabilitiesByLayer(vulnerabilities)
            /\ pc' = "grouped"
            /\ UNCHANGED result
    /\ UNCHANGED <<workflow, vulnerabilities, layer_scores, total_wei, total_rps,
                   risk_level, recommendations, risk_thresholds,
                   mcVars, engVars, webVars, logVars>>

\* line 70; VULNERABILITY_SEVERITY_SCALE.get(severity, 4) (line 275) raises TypeError
\* for a severity that is not hashable
ScoreStep ==
    /\ pc = "grouped"
    /\ IF \E i \in DOMAIN vulnerabilities :
              RaisesTypeError(VulnGet(vulnerabilities[i], "severity", "medium"))
       THEN /\ pc' = "raised"
            /\ result' = Raised("TypeError: unhashable type")
            /\ UNCHANGED layer_scores
       ELSE /\ layer_scores' = CalculateLayerScores(workflow, vulnerabilities_by_layer)
            /\ pc' = "scored"
            /\ UNCHANGED result
    /\ UNCHANGED <<workflow, vulnerabilities, vulnerabilities_by_layer, total_wei,
                   total_rps, risk_level, recommendations, risk_thresholds,
                   mcVars, engVars, webVars, logVars>>

\* line 73
WeiStep ==
    /\ pc = "scored"
    /\ total_wei' = CalculateMaestroWei(layer_scores, Len(workflow.steps))
    /\ pc' = "wei"
    /\ UNCHANGED <<workflow, vulnerabilities, vulnerabilities_by_layer, layer_scores,
                   total_rps, risk_level, recommendations, result, risk_thresholds,
                   mcVars, engVars, webVars, logVars>>

\* line 76
RpsStep ==
    /\ pc = "wei"
    /\ total_rps' = CalculateMaestroRps(layer_scores, vulnerabilities_by_layer)
    /\ pc' = "rps"
    /\ UNCHANGED <<workflow, vulnerabilities, vulnerabilities_by_layer, layer_scores,
                   total_wei, risk_level, recommendations, result, risk_thresholds,
                   mcVars, engVars, webVars, logVars>>

\* line 79
LevelStep ==
    /\ pc = "rps"
    /\ risk_level' = DetermineRiskLevel(risk_thresholds, total_wei, total_rps)
    /\ pc' = "level"
    /\ UNCHANGED <<workflow, vulnerabilities, vulnerabilities_by_layer, layer_scores,
                   total_wei, total_rps, recommendations, result, risk_thresholds,
                   mcVars, engVars, webVars, logVars>>

\* line 82
RecommendStep ==
    /\ pc = "level"
    /\ recommendations' = GenerateRecommendations(layer_scores, vulnerabilities_by_layer)
    /\ pc' = "recommended"
    /\ UNCHANGED <<workflow, vulnerabilities, vulnerabilities_by_layer, layer_scores,
                   total_wei, total_rps, risk_level, result, risk_thresholds,
                   mcVars, engVars, webVars, logVars>>

\* lines 84-92
ReturnStep ==
    /\ pc = "recommended"
    /\ result' = [workflow_name |-> workflow.name,
                  total_wei |-> total_wei,
                  total_rps |-> total_rps,
                  layer_scores |-> layer_scores,
                  vulnerabilities_by_layer |-> vulnerabilities_by_layer,
                  risk_level |-> risk_level,
                  recommendations |-> recommendations]
    /\ pc' = "done"
    /\ UNCHANGED <<workflow, vulnerabilities, vulnerabilities_by_layer, layer_scores,
                   total_wei, total_rps, risk_level, recommendations, risk_thresholds,
                   mcVars, engVars, webVars, logVars>>

Next ==
    \/ GroupStep
    \/ ScoreStep
    \/ WeiStep
    \/ RpsStep
    \/ LevelStep
    \/ RecommendStep
    \/ ReturnStep

Spec == Init /\ [][Next]_vars

\* assessments of an empty vulnerability list, over every workflow shape
InitEmpty == \E wf \in AllWorkflows : CalcStart(wf, <<>>)

SpecEmpty == InitEmpty /\ [][Next]_vars

\* _determine_risk_level applied to a grid of (wei, rps) pairs
InitLevel ==
    \E a \in 0..MaxWeiTenths : \E r \in 0..MaxRps :
        /\ total_wei = R(a, 10)
        /\ total_rps = RInt(r)
        /\ risk_thresholds = RiskCalculatorInit
        /\ pc = "rps"
        /\ workflow = NoValue
        /\ vulnerabilities = NoValue
        /\ vulnerabilities_by_layer = NoValue
        /\ layer_scores = NoValue
        /\ risk_level = NoValue
        /\ recommendations = NoValue
        /\ result = NoValue
        /\ np_random = 0
        /\ estimators = NoValue
        /\ reports = <<>>
        /\ custom_parameters = DefaultParameters
        /\ log_records = <<>>

NextLevel == LevelStep

SpecLevel == InitLevel /\ [][NextLevel]_vars

\* findings of a changed or noisy detector: unknown, empty, missing and differently
\* cased values, and values that are lists
NoisyVulns ==
    { Vuln("custom_finding", "urgent"),
      Vuln(Absent, Absent),
      Vuln("", ""),
      Vuln("Prompt_Injection", "CRITICAL"),
      Vuln("prompt_injection", "high"),
      Vuln(UnhashableValue, "high"),
      Vuln("data_leakage", UnhashableValue) }

\* assessments of such findings
InitNoisy ==
    \E wf \in {Workflow({}, Absent, <<>>, 1), Workflow({"payment"}, "high", <<{"SOX"}>>, 6)} :
        \E vulns \in SeqsUpTo(NoisyVulns, MaxVulns) : CalcStart(wf, vulns)

SpecNoisy == InitNoisy /\ [][Next]_vars

\* the types one critical finding per layer is drawn from: for each layer two types
\* that differ in attack complexity or coupling (for L7 one of them unmapped)
ScenarioTypes ==
    (L1_FOUNDATION_MODELS :> {"prompt_injection", "bias_amplification"}) @@
    (L2_DATA_OPERATIONS :> {"data_leakage", "data_poisoning"}) @@
    (L3_AGENT_FRAMEWORKS :> {"tool_poisoning", "protocol_manipulation"}) @@
    (L4_DEPLOYMENT :> {"sandbox_escape", "network_exposure"}) @@
    (L5_OBSERVABILITY :> {"monitoring_evasion", "log_tampering"}) @@
    (L6_COMPLIANCE :> {"compliance_violation", "policy_bypass"}) @@
    (L7_ECOSYSTEM :> {"supply_chain_attack", "custom_finding"})

\* the lists holding one critical finding for each of the 7 layers
OnePerLayerLists ==
    { <<Vuln(t1, "critical"), Vuln(t2, "critical"), Vuln(t3, "critical"),
        Vuln(t4, "critical"), Vuln(t5, "critical"), Vuln(t6, "critical"),
        Vuln(t7, "critical")>> :
        t1 \in ScenarioTypes[1], t2 \in ScenarioTypes[2], t3 \in ScenarioTypes[3],
        t4 \in ScenarioTypes[4], t5 \in ScenarioTypes[5], t6 \in ScenarioTypes[6],
        t7 \in ScenarioTypes[7] }

\* workflows of 10 nodes: the plainest, the least and the most sensitive
TenNodeWorkflows ==
    { Workflow({}, Absent, <<>>, 10),
      Workflow({"user"}, "low", <<>>, 10),
      Workflow({"financial", "customer"}, "critical", <<{"GDPR"}>>, 10) }

\* assessments of a 10-node workflow with one critical finding in every layer
InitScenarioB ==
    \E wf \in TenNodeWorkflows : \E vulns \in OnePerLayerLists : CalcStart(wf, vulns)

SpecScenarioB == InitScenarioB /\ [][Next]_vars

\* the assessments of Spec together with those of SpecScenarioB: findings in at most
\* MaxVulns layers, and findings in all 7 layers
InitRanked == Init \/ InitScenarioB

SpecRanked == InitRanked /\ [][Next]_vars

\* the findings of least contribution: severity info, coupling 1, attack complexity
\* 3, in the layers of least exposure and weight
WeakVulns ==
    { Vuln("custom_finding", "info"),
      Vuln("data_poisoning", "info"),
      Vuln("bias_amplification", "info"),
      Vuln("log_tampering", "info") }

\* workflows from the least to the greatest business impact
ImpactWorkflows ==
    { Workflow(nm, s, f, n) :
        nm \in {{}, {"financial", "customer"}, {"payment", "user"}},
        s \in {"low", "critical", Absent},
        f \in {<<>>, <<{"GDPR"}>>},
        n \in {0, 10} }

\* assessments of few weak findings, over workflows of every business impact
InitWeak ==
    \E wf \in ImpactWorkflows : \E vulns \in SeqsUpTo(WeakVulns, MaxVulns) :
        CalcStart(wf, vulns)

SpecWeak == InitWeak /\ [][Next]_vars

-----------------------------------------------------------------------------
(* Binary floating point.  A Python float holds MantissaBits significant bits and *)
(* every operation rounds its exact result to the nearest such number, ties to   *)
(* the even mantissa.  The loop of _calculate_rps_contribution adds in the order *)
(* of the list, the one place of calculate_risk where the order of the operands  *)
(* follows the order of the input.                                               *)

RECURSIVE Pow2(_)
Pow2(k) == IF k = 0 THEN 1 ELSE 2 * Pow2(k - 1)

\* 2^e as a rational
RPow2(e) == IF e >= 0 THEN RInt(Pow2(e)) ELSE R(1, Pow2(-e))

\* the exponent e + k for which x * 2^-k has MantissaBits bits before the point
RECURSIVE FlExponent(_, _)
FlExponent(x, e) ==
    IF RGeq(x, RInt(Pow2(MantissaBits))) THEN FlExponent(RMul(x, R(1, 2)), e + 1)
    ELSE IF RLt(x, RInt(Pow2(MantissaBits - 1))) THEN FlExponent(RMul(x, RInt(2)), e - 1)
    ELSE e

\* the integer nearest to x >= 0, the even one of two equally near
RoundHalfEven(x) ==
    LET f         == x.n \div x.d
        twice_rem == 2 * (x.n - f * x.d)
    IN  IF twice_rem > x.d \/ (twice_rem = x.d /\ f % 2 = 1) THEN f + 1 ELSE f

\* the float nearest to the rational x >= 0
FlRound(x) ==
    IF x.n = 0
    THEN x
    ELSE LET e == FlExponent(x, 0)
         IN  RMul(RInt(RoundHalfEven(RMul(x, RPow2(-e)))), RPow2(e))

\* float addition and multiplication
FlAdd(a, b) == FlRound(RAdd(a, b))
FlMul(a, b) == FlRound(RMul(a, b))

\* total_rps after the loop has added the contributions s to total, in list order
RECURSIVE FlSumFrom(_, _)
FlSumFrom(s, total) ==
    IF s = <<>> THEN total ELSE FlSumFrom(Tail(s), FlAdd(total, Head(s)))

\* a contribution that returns from inside the loop, after the first finding
CalculateRpsContributionFloat_FirstOnly(layer, vulns) ==
    IF vulns = <<>>
    THEN R(0, 1)
    ELSE FlMul(RInt(SeverityScore(vulns[1]) * EstimateProtocolCoupling(vulns[1])),
               FlRound(MAESTRO_EXPOSURE_INDEX[layer]))

\* _calculate_rps_contribution in float arithmetic: layer_exposure is the float of
\* the literal, vs_score * pc_factor is a small integer and exact, its product with
\* layer_exposure and every total_rps += contribution round
CalculateRpsContributionFloat(layer, vulns) ==
    IF vulns = <<>>
    THEN R(0, 1)
    ELSE LET layer_exposure == FlRound(MAESTRO_EXPOSURE_INDEX[layer])
         IN  FlSumFrom([i \in 1..Len(vulns) |->
                           FlMul(RInt(SeverityScore(vulns[i])
                                        * EstimateProtocolCoupling(vulns[i])),
                                 layer_exposure)],
                       R(0, 1))

\* _calculate_layer_scores with the float RPS contribution; the other fields are
\* computed by the same operations on the same operands whatever the order of the
\* list (complexity_sum and the severity counts are integers)
CalculateLayerScoresFloat(wf, vbl) ==
    [layer \in MAESTROLayer |->
        [CalculateLayerScores(wf, vbl)[layer] EXCEPT
            !.rps_contribution = CalculateRpsContributionFloat(layer, vbl[layer])]]

\* line 70, in float arithmetic
FloatScoreStep ==
    /\ pc = "grouped"
    /\ IF \E i \in DOMAIN vulnerabilities :
              RaisesTypeError(VulnGet(vulnerabilities[i], "severity", "medium"))
       THEN /\ pc' = "raised"
            /\ result' = Raised("TypeError: unhashable type")
            /\ UNCHANGED layer_scores
       ELSE /\ layer_scores' = CalculateLayerScoresFloat(workflow, vulnerabilities_by_layer)
            /\ pc' = "scored"
            /\ UNCHANGED result
    /\ UNCHANGED <<workflow, vulnerabilities, vulnerabilities_by_layer, total_wei,
                   total_rps, risk_level, recommendations, risk_thresholds,
                   mcVars, engVars, webVars, logVars>>

\* findings of different contributions in one layer, and one in another layer
FloatVulns ==
    { Vuln("bias_amplification", "info"),
      Vuln("bias_amplification", "medium"),
      Vuln("prompt_injection", "high"),
      Vuln("custom_finding", "low") }

FloatWorkflows ==
    { Workflow({}, Absent, <<>>, 1),
      Workflow({"financial", "customer"}, "critical", <<{"GDPR"}>>, 10) }

InitFloat ==
    \E wf \in FloatWorkflows : \E vulns \in SeqsUpTo(FloatVulns, MaxPermuted) :
        CalcStart(wf, vulns)

NextFloat ==
    \/ GroupStep
    \/ FloatScoreStep
    \/ WeiStep
    \/ RpsStep
    \/ LevelStep
    \/ RecommendStep
    \/ ReturnStep

\* calculate_risk with the rounding of the RPS loop
SpecFloat == InitFloat /\ [][NextFloat]_vars

-----------------------------------------------------------------------------
(* Numbers p + q * sigma, sigma the std_dev of the distribution being sampled.   *)
(* std_dev is np.std of integers, in general irrational: a distribution keeps its *)
(* square std_dev_sq, and samples, means and percentiles are pairs [p, q] of     *)
(* rationals, which adding and scaling keep exact.                               *)

X(p, q) == [p |-> p, q |-> q]

XAdd(x, y) == X(RAdd(x.p, y.p), RAdd(x.q, y.q))
XSub(x, y) == X(RSub(x.p, y.p), RSub(x.q, y.q))
XScale(x, r) == X(RMul(x.p, r), RMul(x.q, r))

\* (px + qx sigma) * (py + qy sigma), with sigma^2 = var
XMul(x, y, var) ==
    X(RAdd(RMul(x.p, y.p), RMul(RMul(x.q, y.q), var)),
      RAdd(RMul(x.p, y.q), RMul(x.q, y.p)))

\* q * sigma < t, decided on the squares (var > 0)
QSigmaLess(q, t, var) ==
    IF q.n >= 0
    THEN IF t.n <= 0 THEN FALSE ELSE RLt(RMul(RMul(q, q), var), RMul(t, t))
    ELSE IF t.n >= 0 THEN TRUE ELSE RGt(RMul(RMul(q, q), var), RMul(t, t))

\* x < y
XLess(x, y, var) == QSigmaLess(RSub(x.q, y.q), RSub(y.p, x.p), var)

RECURSIVE XSumSeq(_)
XSumSeq(s) == IF s = <<>> THEN X(RInt(0), RInt(0)) ELSE XAdd(Head(s), XSumSeq(Tail(s)))

\* np.mean of a sample vector
XMean(samples) == XScale(XSumSeq(samples), R(1, Len(samples)))

\* the square of np.std of a sample vector
XVariance(samples, var) ==
    LET m == XMean(samples)
    IN  XMean([i \in 1..Len(samples) |->
                  XMul(XSub(samples[i], m), XSub(samples[i], m), var)])

\* s with x inserted before the first element greater than x
RECURSIVE XInsert(_, _, _)
XInsert(s, x, var) ==
    IF s = <<>> THEN <<x>>
    ELSE IF XLess(x, Head(s), var) THEN <<x>> \o s
    ELSE <<Head(s)>> \o XInsert(Tail(s), x, var)

\* the samples in ascending order
RECURSIVE XSorted(_, _)
XSorted(samples, var) ==
    IF samples = <<>> THEN <<>>
    ELSE XInsert(XSorted(SubSeq(samples, 1, Len(samples) - 1), var),
                 samples[Len(samples)], var)

\* np.percentile(samples, pct) on the sorted samples: linear interpolation between
\* the order statistics
Percentile(sorted, pct) ==
    LET h    == RMul(RInt(Len(sorted) - 1), RDiv(pct, RInt(100)))
        lo   == h.n \div h.d
        frac == RSub(h, RInt(lo))
    IN  IF lo + 1 >= Len(sorted)
        THEN sorted[Len(sorted)]
        ELSE XAdd(sorted[lo + 1], XScale(XSub(sorted[lo + 2], sorted[lo + 1]), frac))

-----------------------------------------------------------------------------
(* numpy's process-wide generator.  The Mersenne Twister is modelled by a small   *)
(* linear congruential generator: a draw is a function of the generator state    *)
(* and advances it, and np.random.seed sets the state from the seed.             *)

RngStates == 0..15

\* np.random.seed(seed)
SeedState(seed) == seed % 16

\* the generator state after one draw
NextRng(rng) == (5 * rng + 3) % 16

\* the standard-normal deviate drawn in state rng: -15/8, -13/8, ..., 15/8
Deviate(rng) == R(2 * rng - 15, 8)

\* n successive deviates and the state after them
RECURSIVE DrawDeviates(_, _)
DrawDeviates(rng, n) ==
    IF n = 0
    THEN [z |-> <<>>, rng |-> rng]
    ELSE LET rest == DrawDeviates(NextRng(rng), n - 1)
         IN  [z |-> <<Deviate(rng)>> \o rest.z, rng |-> rest.rng]

-----------------------------------------------------------------------------
(* core/monte_carlo_estimator.py: MonteCarloEstimator *)

MonteCarloParams(n_simulations, random_seed) ==
    [n_simulations |-> n_simulations, confidence_interval |-> R(95, 100),
     random_seed |-> random_seed]

\* UncertaintyDistribution; std_dev_sq is the square of its std_dev
UncertaintyDistribution(mean, std_dev_sq, lower_bound, upper_bound) ==
    [mean |-> mean, std_dev_sq |-> std_dev_sq, distribution_type |-> "normal",
     lower_bound |-> lower_bound, upper_bound |-> upper_bound]

\* a lookup that falls back to the row of another type instead of the default values
ThreatData_WrongDefault(vuln) ==
    LET vuln_type == VulnGet(vuln, "type", "unknown")
    IN  DictGet(CORE_THREAT_MATRIX, vuln_type, CORE_THREAT_MATRIX["network_exposure"])

\* CORE_THREAT_MATRIX.get(vuln_type, DEFAULT_THREAT_VALUES)
ThreatData(vuln) ==
    LET vuln_type == VulnGet(vuln, "type", "unknown")
    IN  DictGet(CORE_THREAT_MATRIX, vuln_type, DEFAULT_THREAT_VALUES)

\* the list of one parameter's table values
ThreatValues(vulns, key) == [i \in 1..Len(vulns) |-> ThreatData(vulns[i])[key]]

\* np.mean of a list of integers
NpMean(values) == R(SumSeq(values), Len(values))

\* the square of np.std (the population standard deviation) of a list of integers
NpStdSq(values) ==
    LET n  == Len(values)
        s1 == SumSeq(values)
        s2 == SumSeq([i \in 1..n |-> values[i] * values[i]])
    IN  R(n * s2 - s1 * s1, n * n)

\* a standard deviation without the floor: np.std(values) for every list
FlooredStdSq_NoFloor(values, floor_sq) == NpStdSq(values)

\* max(floor, np.std(values)) if len(values) > 1 else floor, squared
FlooredStdSq(values, floor_sq) ==
    IF Len(values) > 1 THEN RMax(floor_sq, NpStdSq(values)) ELSE floor_sq

\* _get_attack_complexity_distribution
GetAttackComplexityDistribution(vulns) ==
    IF vulns = <<>>
    THEN UncertaintyDistribution(R(3, 1), R(9, 100), R(25, 10), R(3, 1))
    ELSE LET complexity_values == ThreatValues(vulns, "ac")
         IN  UncertaintyDistribution(NpMean(complexity_values),
                 FlooredStdSq(complexity_values, R(9, 100)), R(1, 1), R(3, 1))

\* an impact distribution without the case of an empty list, which instead gets the
\* distribution of one finding of the default impact
GetImpactDistribution_NoEmptyCase(vulns) ==
    LET impact_values == IF vulns = <<>> THEN <<DEFAULT_THREAT_VALUES.impact>>
                         ELSE ThreatValues(vulns, "impact")
    IN  UncertaintyDistribution(NpMean(impact_values),
            FlooredStdSq(impact_values, R(1, 4)), R(1, 1), R(5, 1))

\* _get_impact_distribution
GetImpactDistribution(vulns) ==
    IF vulns = <<>>
    THEN UncertaintyDistribution(R(15, 10), R(1, 4), R(1, 1), R(25, 10))
    ELSE LET impact_values == ThreatValues(vulns, "impact")
         IN  UncertaintyDistribution(NpMean(impact_values),
                 FlooredStdSq(impact_values, R(1, 4)), R(1, 1), R(5, 1))

\* _get_vulnerability_severity_distribution
GetVulnerabilitySeverityDistribution(vulns) ==
    IF vulns = <<>>
    THEN UncertaintyDistribution(R(2, 1), R(1, 1), R(1, 1), R(4, 1))
    ELSE LET severity_values == ThreatValues(vulns, "vs")
         IN  UncertaintyDistribution(NpMean(severity_values),
                 FlooredStdSq(severity_values, R(1, 1)), R(1, 1), R(10, 1))

\* _get_protocol_coupling_distribution
GetProtocolCouplingDistribution(vulns) ==
    IF vulns = <<>>
    THEN UncertaintyDistribution(R(12, 10), R(9, 100), R(1, 1), R(2, 1))
    ELSE LET coupling_values == ThreatValues(vulns, "pc")
         IN  UncertaintyDistribution(NpMean(coupling_values),
                 FlooredStdSq(coupling_values, R(9, 100)), R(1, 1), R(3, 1))

\* a sampler that drops the draws outside the bounds instead of clamping them
GenerateSamples_Rejecting(rng, distribution, n_simulations) ==
    LET drawn == DrawDeviates(rng, n_simulations)
        var   == distribution.std_dev_sq
        lower == X(distribution.lower_bound, RInt(0))
        upper == X(distribution.upper_bound, RInt(0))
    IN  [samples |-> SelectSeq([i \in 1..n_simulations |-> X(distribution.mean, drawn.z[i])],
                               LAMBDA x : ~XLess(x, lower, var) /\ ~XLess(upper, x, var)),
         rng |-> drawn.rng]

\* _generate_samples for a normal distribution (the only type the estimator builds):
\* n draws mean + std_dev * z, then np.maximum with the lower and np.minimum with
\* the upper bound
GenerateSamples(rng, distribution, n_simulations) ==
    LET drawn == DrawDeviates(rng, n_simulations)
        var   == distribution.std_dev_sq
        lower == X(distribution.lower_bound, RInt(0))
        upper == X(distribution.upper_bound, RInt(0))
        Maximum(x) == IF XLess(x, lower, var) THEN lower ELSE x
        Minimum(x) == IF XLess(upper, x, var) THEN upper ELSE x
    IN  [samples |-> [i \in 1..n_simulations |->
                         Minimum(Maximum(X(distribution.mean, drawn.z[i])))],
         rng |-> drawn.rng]

\* a simulation whose interval takes alpha instead of alpha / 2 at each end
RunSimulation_FullAlpha(rng, params, distribution) ==
    LET gen     == GenerateSamples(rng, distribution, params.n_simulations)
        samples == gen.samples
        var     == distribution.std_dev_sq
        sorted  == XSorted(samples, var)
        alpha   == RSub(RInt(1), params.confidence_interval)
        lower_percentile == RMul(alpha, RInt(100))
        upper_percentile == RMul(RSub(RInt(1), alpha), RInt(100))
    IN  [result |->
            [mean |-> XMean(samples),
             std_dev_sq |-> XVariance(samples, var),
             confidence_interval |->
                 <<Percentile(sorted, lower_percentile),
                   Percentile(sorted, upper_percentile)>>,
             percentiles |->
                 (5 :> Percentile(sorted, RInt(5))) @@
                 (25 :> Percentile(sorted, RInt(25))) @@
                 (50 :> Percentile(sorted, RInt(50))) @@
                 (75 :> Percentile(sorted, RInt(75))) @@
                 (95 :> Percentile(sorted, RInt(95))),
             samples |-> samples],
         rng |-> gen.rng]

\* _run_simulation: the MonteCarloResult and the generator state it leaves
RunSimulation(rng, params, distribution) ==
    LET gen     == GenerateSamples(rng, distribution, params.n_simulations)
        samples == gen.samples
        var     == distribution.std_dev_sq
        sorted  == XSorted(samples, var)
        alpha   == RSub(RInt(1), params.confidence_interval)
        lower_percentile == RMul(RDiv(alpha, RInt(2)), RInt(100))
        upper_percentile == RMul(RSub(RInt(1), RDiv(alpha, RInt(2))), RInt(100))
    IN  [result |->
            [mean |-> XMean(samples),
             std_dev_sq |-> XVariance(samples, var),
             confidence_interval |->
                 <<Percentile(sorted, lower_percentile),
                   Percentile(sorted, upper_percentile)>>,
             percentiles |->
                 (5 :> Percentile(sorted, RInt(5))) @@
                 (25 :> Percentile(sorted, RInt(25))) @@
                 (50 :> Percentile(sorted, RInt(50))) @@
                 (75 :> Percentile(sorted, RInt(75))) @@
                 (95 :> Percentile(sorted, RInt(95))),
             samples |-> samples],
         rng |-> gen.rng]

\* the distribution estimate_vulnerability_parameters simulates at its k-th step
DistributionAt(k, vulns) ==
    CASE k = 1 -> GetAttackComplexityDistribution(vulns)
      [] k = 2 -> GetImpactDistribution(vulns)
      [] k = 3 -> GetVulnerabilitySeverityDistribution(vulns)
      [] k = 4 -> GetProtocolCouplingDistribution(vulns)

\* ac_distribution, impact_distribution, vs_distribution and pc_distribution, the
\* locals of estimate_vulnerability_parameters
Distributions(vulns) == [k \in 1..4 |-> DistributionAt(k, vulns)]

\* the results dict built from the four simulations, in the order they are run
ResultsDict(sims) ==
    [attack_complexity |-> sims[1], impact |-> sims[2],
     vulnerability_severity |-> sims[3], protocol_coupling |-> sims[4]]

\* the simulations estimate_vulnerability_parameters runs from its k-th on, each
\* continuing from the generator state its predecessor left
RECURSIVE RunSimulationsFrom(_, _, _, _, _)
RunSimulationsFrom(k, rng, params, vulns, sims) ==
    IF k > 4
    THEN [results |-> ResultsDict(sims), rng |-> rng]
    ELSE CHOOSE out \in
            { RunSimulationsFrom(k + 1, sim.rng, params, vulns, Append(sims, sim.result)) :
                sim \in {RunSimulation(rng, params, DistributionAt(k, vulns))} } : TRUE

\* estimate_vulnerability_parameters run from generator state rng without
\* interruption: the results dict and the generator state it leaves
EstimateVulnerabilityParameters(rng, params, vulns) ==
    RunSimulationsFrom(1, rng, params, vulns, <<>>)

-----------------------------------------------------------------------------
(* Estimator instances sharing the process-wide generator *)

EstimatorIds == {"A", "B"}

InputSeeds == {42, 7}

MCInputLists ==
    { <<>>,
      <<Vuln("prompt_injection", "high")>>,
      <<Vuln("custom_finding", "critical"), Vuln("sandbox_escape", "critical")>> }

\* an instance not yet constructed
NoEstimator ==
    [made |-> FALSE, params |-> MonteCarloParams(0, 0), stage |-> 0,
     vulns |-> <<>>, partial |-> <<>>, calls |-> <<>>]

CalcIdle ==
    /\ workflow = NoValue
    /\ vulnerabilities = NoValue
    /\ risk_thresholds = RiskCalculatorInit
    /\ pc = "idle"
    /\ vulnerabilities_by_layer = NoValue
    /\ layer_scores = NoValue
    /\ total_wei = NoValue
    /\ total_rps = NoValue
    /\ risk_level = NoValue
    /\ recommendations = NoValue
    /\ result = NoValue

\* the process has imported numpy, which seeded its generator from the system
InitMC ==
    /\ CalcIdle
    /\ np_random \in RngStates
    /\ estimators = [e \in EstimatorIds |-> NoEstimator]
    /\ reports = <<>>
    /\ custom_parameters = DefaultParameters
    /\ log_records = <<>>

\* MonteCarloEstimator.__init__ (lines 42-44): stores the params and seeds the
\* process-wide generator
MCConstruct(e, seed) ==
    /\ ~estimators[e].made
    /\ \A o \in EstimatorIds : estimators[o].stage = 0
    /\ estimators' = [estimators EXCEPT ![e].made = TRUE,
                                        ![e].params = MonteCarloParams(NSim, seed)]
    /\ np_random' = SeedState(seed)
    /\ UNCHANGED <<calcVars, engVars, webVars, logVars>>

\* the number of finished calls of the process
TotalCalls == SumSeq([i \in 1..2 |-> Len(estimators[<<"A", "B">>[i]].calls)])

\* one whole call of estimate_vulnerability_parameters
MCEstimate(e, vulns) ==
    /\ estimators[e].made
    /\ TotalCalls < MaxCalls
    /\ \E out \in {EstimateVulnerabilityParameters(np_random, estimators[e].params, vulns)} :
           /\ estimators' = [estimators EXCEPT ![e].calls =
                                Append(@, [vulns |-> vulns,
                                           distributions |-> Distributions(vulns),
                                           results |-> out.results])]
           /\ np_random' = out.rng
    /\ UNCHANGED <<calcVars, engVars, webVars, logVars>>

\* a client that constructs estimators and makes up to MaxCalls calls, one at a time
NextSeq ==
    \/ \E e \in EstimatorIds, seed \in InputSeeds : MCConstruct(e, seed)
    \/ \E e \in EstimatorIds, vulns \in MCInputLists : MCEstimate(e, vulns)

SpecSeq == InitMC /\ [][NextSeq]_vars

\* __init__ of an assessment that runs concurrently with others
MCConstructPar(e, seed) ==
    /\ ~estimators[e].made
    /\ estimators' = [estimators EXCEPT ![e].made = TRUE,
                                        ![e].params = MonteCarloParams(NSim, seed)]
    /\ np_random' = SeedState(seed)
    /\ UNCHANGED <<calcVars, engVars, webVars, logVars>>

\* estimate_vulnerability_parameters is entered (line 56)
MCBegin(e, vulns) ==
    /\ estimators[e].made
    /\ estimators[e].stage = 0
    /\ estimators[e].calls = <<>>
    /\ estimators' = [estimators EXCEPT ![e].stage = 1, ![e].vulns = vulns,
                                        ![e].partial = <<>>]
    /\ UNCHANGED <<np_random, calcVars, engVars, webVars, logVars>>

\* the next of the four _run_simulation calls (lines 59-72); the fourth returns
MCSimulate(e) ==
    /\ estimators[e].stage \in 1..4
    /\ \E me \in {estimators[e]} :
       \E sim \in {RunSimulation(np_random, me.params, DistributionAt(me.stage, me.vulns))} :
           /\ np_random' = sim.rng
           /\ estimators' =
                IF me.stage < 4
                THEN [estimators EXCEPT ![e].stage = me.stage + 1,
                                        ![e].partial = Append(me.partial, sim.result)]
                ELSE [estimators EXCEPT ![e].stage = 0, ![e].partial = <<>>,
                         ![e].calls = Append(@, [vulns |-> me.vulns,
                                                 distributions |-> Distributions(me.vulns),
                                                 results |-> ResultsDict(
                                                     Append(me.partial, sim.result))])]
    /\ UNCHANGED <<calcVars, engVars, webVars, logVars>>

\* two assessments, each constructing its estimator and estimating once, interleaved
NextPar ==
    \/ \E e \in EstimatorIds, seed \in InputSeeds : MCConstructPar(e, seed)
    \/ \E e \in EstimatorIds, vulns \in MCInputLists : MCBegin(e, vulns)
    \/ \E e \in EstimatorIds : MCSimulate(e)

SpecPar == InitMC /\ [][NextPar]_vars

\* the findings the lists of SpecDist are drawn from: table rows that differ in
\* every parameter, an unmapped type and a finding without a type
DistVulns ==
    { Vuln("prompt_injection", "high"),
      Vuln("sandbox_escape", "critical"),
      Vuln("monitoring_evasion", "low"),
      Vuln("custom_finding", "medium"),
      Vuln(Absent, "high") }

DistInputLists == SeqsUpTo(DistVulns, MaxVulns)

DistSeeds == {42, 7, 0, 9}

\* the first call of estimate_vulnerability_parameters on an estimator
MCEstimateOnce(e, vulns) ==
    /\ estimators[e].calls = <<>>
    /\ MCEstimate(e, vulns)

\* a client that constructs one estimator and estimates one list with it
NextDist ==
    \/ \E seed \in DistSeeds : MCConstruct("A", seed)
    \/ \E vulns \in DistInputLists : MCEstimateOnce("A", vulns)

SpecDist == InitMC /\ [][NextDist]_vars

-----------------------------------------------------------------------------
(* core/workflow_parser.py: WorkflowParser.  A YAML text is modelled by the data  *)
(* yaml.safe_load makes of it: the workflow's name (the set of searched-for       *)
(* keywords its lower-cased text contains, Absent without a name), its metadata   *)
(* and its list of step dicts, whose keys may be absent.                          *)

StepData(id, agent, action, params, input_from, dependencies) ==
    [id |-> id, agent |-> agent, action |-> action, params |-> params,
     input_from |-> input_from, dependencies |-> dependencies]

YamlData(name, metadata, steps) == [name |-> name, metadata |-> metadata, steps |-> steps]

\* a key of a YAML mapping that is missing, or given with value v
Missing == <<>>
Given(v) == <<v>>

\* mapping.get(key, default) for such a key
GetOr(entry, default) == IF entry = Missing THEN default ELSE entry[1]

\* _parse_workflow_data: the ParsedWorkflow, or the ValueError for a workflow
\* without steps; every missing key of a step takes its default.  The description,
\* the data flows and the protocol validation, which the assessment does not read
\* afterwards, are left out.
ParseWorkflowData(data) ==
    IF data.steps = <<>>
    THEN Raised("ValueError: No workflow steps found")
    ELSE [name |-> GetOr(data.name, {}),
          metadata |-> data.metadata,
          steps |-> [i \in 1..Len(data.steps) |->
              LET step_data == data.steps[i]
              IN  WorkflowStep(
                    GetOr(step_data.id, <<"step_", i - 1>>),
                    GetOr(step_data.agent, Text("unknown_agent", {})),
                    GetOr(step_data.action, Text("unknown_action", {})),
                    GetOr(step_data.params, {}),
                    GetOr(step_data.input_from, Absent),
                    GetOr(step_data.dependencies, <<>>))],
          agents |-> {GetOr(data.steps[i].agent, Text("unknown_agent", {})).text :
                        i \in 1..Len(data.steps)}]

\* the vulnerability dict appended when cond holds
Finding(cond, type, step_id, agent, severity) ==
    IF cond
    THEN <<[type |-> type, step |-> step_id, agent |-> agent, severity |-> severity]>>
    ELSE <<>>

high_risk_data == {"financial_records", "payment_data", "sensitive_customer_data", "classified"}

medium_risk_data == {"customer_data", "user_profiles", "analytics_data"}

\* _analyze_step_vulnerabilities
AnalyzeStepVulnerabilities(step) ==
    LET agent == step.agent.text
        Found(cond, type, severity) == Finding(cond, type, step.step_id, agent, severity)
    IN  Found(\/ "prompt" \in step.params
              \/ step.action.text \in {"analyze", "generate", "process",
                                       "analyze_financial_risk", "process_risk_predictions"}
              \/ "AnalyticsAgent" \in step.agent.has
              \/ "ModelAgent" \in step.agent.has,
              "prompt_injection", "high")
        \o
        Found(\/ "model" \in step.params
              \/ "ModelAgent" \in step.agent.has
              \/ "ml_predictions" \in step.action.has
              \/ "inference" \in step.action.has,
              "model_poisoning", "critical")
        \o
        (IF step.action.has \cap high_risk_data # {}
         THEN Found(TRUE, "data_leakage", "high")
         ELSE Found(step.action.has \cap medium_risk_data # {}, "data_leakage", "medium"))
        \o
        Found(step.params \cap {"pii", "customer_records", "payment_data", "sensitive"} # {},
              "privacy_violation", "high")
        \o
        Found(\/ "tool" \in step.params
              \/ step.action.text \in {"execute", "run", "invoke", "process_analysis_tool"}
              \/ "external_apis" \in step.params
              \/ "AnalyticsAgent" \in step.agent.has,
              "tool_poisoning", "high")
        \o
        Found(\/ Len(step.dependencies) > 0
              \/ step.input_from \notin {Absent, ""}
              \/ "a2a_" \in step.params
              \/ "oauth2" \in step.params,
              "agent_impersonation", "medium")
        \o
        Found(\/ "critical_operations" \in step.action.has
              \/ "execute_critical" \in step.action.has
              \/ "WorkflowAgent" \in step.agent.has
              \/ "administrator" \in step.params
              \/ "privileged" \in step.params,
              "privilege_escalation", "high")

high_compliance_keywords ==
    {"payment_processing", "credit_card", "bank_transfer", "financial_transaction"}

medium_compliance_keywords == {"customer_data", "user_profiles", "analytics"}

\* _analyze_workflow_vulnerabilities
AnalyzeWorkflowVulnerabilities(wf) ==
    LET Found(cond, type, severity) == Finding(cond, type, "workflow", "system", severity)
        compliance_frameworks == DictGet(wf.metadata, "compliance_frameworks", {})
        agents == {wf.steps[i].agent.text : i \in DOMAIN wf.steps}
        external_dependencies ==
            \E i \in DOMAIN wf.steps :
                wf.steps[i].params \cap {"external", "api", "third_party"} # {}
    IN  Found(/\ Len(wf.steps) > 7
              /\ ~ \E i \in DOMAIN wf.steps : "monitor" \in wf.steps[i].action.has,
              "monitoring_evasion", "low")
        \o
        (IF wf.name \cap high_compliance_keywords # {}
         THEN Found(TRUE, "compliance_violation", "high")
         ELSE Found(/\ wf.name \cap medium_compliance_keywords # {}
                    /\ compliance_frameworks \cap {"SOX", "PCI_DSS", "GDPR"} # {},
                    "compliance_violation", "medium"))
        \o
        Found(Cardinality(agents) > 3 \/ external_dependencies,
              "supply_chain_attack", "medium")

\* the step findings of steps[k..], in step order
RECURSIVE StepFindingsFrom(_, _)
StepFindingsFrom(steps, k) ==
    IF k > Len(steps) THEN <<>>
    ELSE AnalyzeStepVulnerabilities(steps[k]) \o StepFindingsFrom(steps, k + 1)

\* a parser that keeps its findings on the instance: each call returns those of the
\* calls before it as well
IdentifyPotentialVulnerabilities_Accumulating(wf) ==
    (IF reports = <<>> \/ "raised" \in DOMAIN reports[Len(reports)].report
     THEN <<>>
     ELSE reports[Len(reports)].report.vulnerabilities)
        \o StepFindingsFrom(wf.steps, 1) \o AnalyzeWorkflowVulnerabilities(wf)

\* identify_potential_vulnerabilities
IdentifyPotentialVulnerabilities(wf) ==
    StepFindingsFrom(wf.steps, 1) \o AnalyzeWorkflowVulnerabilities(wf)

-----------------------------------------------------------------------------
(* core/maestro_engine.py: MAESTROEngine *)

\* a local variable: F applied to the value of v, which is computed once
LetIn(v, F(_)) == CHOOSE r \in {F(x) : x \in {v}} : TRUE

\* RiskCalculator.calculate_risk as one call: the RiskAssessmentResult
CalculateRisk(thresholds, wf, vulns) ==
    LetIn(GroupVulnerabilitiesByLayer(vulns), LAMBDA vbl :
    LetIn(CalculateLayerScores(wf, vbl), LAMBDA scores :
    LetIn(CalculateMaestroWei(scores, Len(wf.steps)), LAMBDA wei :
    LetIn(CalculateMaestroRps(scores, vbl), LAMBDA rps :
        [workflow_name |-> wf.name,
         total_wei |-> wei,
         total_rps |-> rps,
         layer_scores |-> scores,
         vulnerabilities_by_layer |-> vbl,
         risk_level |-> DetermineRiskLevel(thresholds, wei, rps),
         recommendations |-> GenerateRecommendations(scores, vbl)]))))

\* what assess_workflow_from_yaml returns for this YAML data or raises (the parse
\* error goes to the caller); the risk part of the report
AssessmentReport(thresholds, data) ==
    LetIn(ParseWorkflowData(data), LAMBDA wf :
        IF "raised" \in DOMAIN wf
        THEN wf
        ELSE LetIn(IdentifyPotentialVulnerabilities(wf), LAMBDA found :
                [workflow |-> wf,
                 vulnerabilities |-> found,
                 risk_assessment |-> CalculateRisk(thresholds, wf, found)]))

\* the YAML texts the engine is given
AnalyzeStep ==
    StepData(Given(<<"s1">>), Given(Text("AnalyticsAgent", {"AnalyticsAgent"})),
             Given(Text("analyze", {})), Given({"prompt"}), Missing, Missing)

ModelStep ==
    StepData(Given(<<"s2">>), Given(Text("ModelAgent", {"ModelAgent"})),
             Given(Text("run_inference", {"inference"})), Given({"model"}),
             Given("s1"), Given(<<"s1">>))

DataStep ==
    StepData(Given(<<"s3">>), Given(Text("DataAgent", {})),
             Given(Text("load_customer_data", {"customer_data"})),
             Given({"pii", "sensitive"}), Missing, Given(<<>>))

PayStep ==
    StepData(Given(<<"s4">>), Given(Text("PaymentAgent", {})),
             Given(Text("export_payment_data", {"payment_data"})),
             Given({"payment_data", "oauth2"}), Missing, Missing)

ExecStep ==
    StepData(Given(<<"s5">>), Given(Text("WorkflowAgent", {"WorkflowAgent"})),
             Given(Text("execute", {})),
             Given({"tool", "external_apis", "external", "api"}), Given(""), Missing)

MonitorStep ==
    StepData(Missing, Given(Text("OpsAgent", {})),
             Given(Text("monitor_health", {"monitor"})), Given({}), Missing, Missing)

BareStep == StepData(Missing, Missing, Missing, Missing, Missing, Missing)

Repeat(step, n) == [i \in 1..n |-> step]

InputYamls ==
    { YamlData(Missing, <<>>, <<>>),
      YamlData(Missing, <<>>, <<BareStep>>),
      YamlData(Given({}), Meta("low", <<>>), <<MonitorStep>>),
      YamlData(Given({"financial", "financial_transaction"}), Meta("critical", <<{"SOX"}>>),
               <<AnalyzeStep, PayStep>>),
      YamlData(Given({"customer", "customer_data"}), Meta(Absent, <<{"GDPR"}>>),
               <<DataStep, ModelStep>>),
      YamlData(Given({"customer", "customer_data"}), Meta("high", <<{"ISO27001"}>>),
               <<DataStep>>),
      YamlData(Given({"analytics"}), Meta("medium", <<{"PCI_DSS", "ISO27001"}>>),
               <<ExecStep>>),
      YamlData(Given({"payment", "payment_processing", "user"}), Meta("secret", <<{}>>),
               <<PayStep, ExecStep, ModelStep>>),
      YamlData(Given({}), <<>>, Repeat(BareStep, 8)),
      YamlData(Given({"user", "user_profiles"}), Meta("high", <<>>),
               Repeat(BareStep, 7) \o <<MonitorStep>>),
      YamlData(Given({}), Meta("medium", <<>>),
               <<AnalyzeStep, ModelStep, DataStep, PayStep>>),
      YamlData(Given({"financial"}), Meta("critical", <<{"HIPAA"}>>),
               <<AnalyzeStep, ModelStep, DataStep, PayStep, ExecStep, MonitorStep>>) }

\* MAESTROEngine.__init__: a parser, a calculator with its thresholds, no report yet
InitEngine ==
    /\ CalcIdle
    /\ np_random = 0
    /\ estimators = NoValue
    /\ reports = <<>>
    /\ custom_parameters = DefaultParameters
    /\ log_records = <<>>

\* assess_workflow_from_yaml: the report is returned (or the error raised) and no
\* attribute of the engine, its parser or its calculator is assigned
AssessWorkflowFromYaml(yaml_content) ==
    /\ Len(reports) < MaxCalls
    /\ \E report \in {AssessmentReport(risk_thresholds, yaml_content)} :
           reports' = Append(reports, [yaml_content |-> yaml_content, report |-> report])
    /\ UNCHANGED <<calcVars, mcVars, webVars, logVars>>

NextEngine == \E yaml_content \in InputYamls : AssessWorkflowFromYaml(yaml_content)

SpecEngine == InitEngine /\ [][NextEngine]_vars

-----------------------------------------------------------------------------
(* web/streamlit_app.py: the pages "Configure Parameters" and "Upload Workflow" *)

\* MAESTRO_LAYER_WEIGHTS with the sliders of some layers moved
WithWeights(changes) ==
    [l \in MAESTROLayer |->
        IF l \in DOMAIN changes THEN changes[l] ELSE MAESTRO_LAYER_WEIGHTS[l]]

\* the slider settings of the layer weights: untouched, summing to 0.99, to 1.10
\* and to 0.80, and a redistribution that sums to 1.00
SliderWeights ==
    { WithWeights(<<>>),
      WithWeights(L1_FOUNDATION_MODELS :> R(14, 100)),
      WithWeights(L1_FOUNDATION_MODELS :> R(25, 100)),
      WithWeights(L3_AGENT_FRAMEWORKS :> R(0, 100)),
      WithWeights((L1_FOUNDATION_MODELS :> R(10, 100)) @@ (L2_DATA_OPERATIONS :> R(15, 100))) }

\* the slider settings of the exposure indices (each slider ranges over 0.0 .. 1.0)
SliderExposures ==
    { MAESTRO_EXPOSURE_INDEX,
      [l \in MAESTROLayer |-> IF l = L7_ECOSYSTEM THEN R(1, 1) ELSE MAESTRO_EXPOSURE_INDEX[l]] }

\* the sums of the cost weight sliders: 1.00 and 1.20
SliderCostTotals == {R(100, 100), R(120, 100)}

\* abs(total - 1.0) <= 0.01 (lines 971, 1014, 1021)
SumsToOne(total) ==
    /\ RLeq(RSub(total, RInt(1)), R(1, 100))
    /\ RLeq(RSub(RInt(1), total), R(1, 100))

\* the button "Save Custom Parameters" (lines 1020-1029): the settings are stored
\* when both sums pass the test, and an error is shown otherwise
SaveCustomParameters(layer_weights, exposure_index, total_cost_weight) ==
    /\ LET total_weight == RSum(layer_weights, 1, 7)
       IN  IF SumsToOne(total_weight) /\ SumsToOne(total_cost_weight)
           THEN custom_parameters' =
                    [layer_weights |-> layer_weights, exposure_index |-> exposure_index]
           ELSE custom_parameters' = custom_parameters
    /\ UNCHANGED <<calcVars, mcVars, engVars, logVars>>

\* the button "Reset to Defaults" (lines 1051-1057)
ResetToDefaults ==
    /\ custom_parameters' = DefaultParameters
    /\ UNCHANGED <<calcVars, mcVars, engVars, logVars>>

\* the YAML texts pasted into the page "Upload Workflow"
WebYamls ==
    { YamlData(Missing, <<>>, <<>>),
      YamlData(Missing, <<>>, <<BareStep>>),
      YamlData(Given({"customer", "customer_data"}), Meta("high", <<{"ISO27001"}>>),
               <<DataStep>>),
      YamlData(Given({"analytics"}), Meta("medium", <<{"PCI_DSS", "ISO27001"}>>),
               <<ExecStep>>) }

\* the button "Run MAESTRO Assessment" (lines 894-927): a new MAESTROEngine is
\* constructed, the stored custom parameters are not handed to it (lines 915-918)
\* and it assesses the YAML text
RunAssessment(yaml_content) ==
    /\ Len(reports) < MaxCalls
    /\ risk_thresholds' = RiskCalculatorInit
    /\ \E report \in {AssessmentReport(RiskCalculatorInit, yaml_content)} :
           reports' = Append(reports, [yaml_content |-> yaml_content, report |-> report])
    /\ UNCHANGED <<workflow, vulnerabilities, pc, vulnerabilities_by_layer, layer_scores,
                   total_wei, total_rps, risk_level, recommendations, result,
                   mcVars, webVars, logVars>>

NextWeb ==
    \/ \E layer_weights \in SliderWeights, exposure_index \in SliderExposures,
          total_cost_weight \in SliderCostTotals :
            SaveCustomParameters(layer_weights, exposure_index, total_cost_weight)
    \/ ResetToDefaults
    \/ \E yaml_content \in WebYamls : RunAssessment(yaml_content)

SpecWeb == InitEngine /\ [][NextWeb]_vars

-----------------------------------------------------------------------------
(* Helpers of the properties *)

Range(s) == {s[i] : i \in DOMAIN s}

Count(s, x) == Cardinality({i \in DOMAIN s : s[i] = x})

Grouped == pc \in {"grouped", "scored", "wei", "rps", "level", "recommended", "done"}
Scored  == pc \in {"scored", "wei", "rps", "level", "recommended", "done"}

-----------------------------------------------------------------------------
(* C1 *)

\* C1: after grouping, the map has exactly the 7 layers as keys, every input
\* vulnerability is in exactly one layer's list, as often as it occurs in the input,
\* the lists hold nothing else and their lengths sum to the length of the input.
C1_ExactlyOneLayer ==
    Grouped =>
        /\ DOMAIN vulnerabilities_by_layer = MAESTROLayer
        /\ Cardinality(MAESTROLayer) = 7
        /\ \A v \in Range(vulnerabilities) :
              /\ Cardinality({l \in MAESTROLayer :
                                v \in Range(vulnerabilities_by_layer[l])}) = 1
              /\ SumSeq([l \in 1..7 |-> Count(vulnerabilities_by_layer[l], v)])
                    = Count(vulnerabilities, v)
        /\ \A l \in MAESTROLayer :
              Range(vulnerabilities_by_layer[l]) \subseteq Range(vulnerabilities)
        /\ SumSeq([l \in 1..7 |-> Len(vulnerabilities_by_layer[l])])
              = Len(vulnerabilities)

\* two findings, one of an unmapped type, grouped into two different layers
C1_Witness ==
    /\ pc = "grouped"
    /\ Len(vulnerabilities) = 2
    /\ Len(vulnerabilities_by_layer[L7_ECOSYSTEM]) = 1
    /\ Len(vulnerabilities_by_layer[L1_FOUNDATION_MODELS]) = 1
    /\ vulnerabilities_by_layer[L7_ECOSYSTEM][1].type = "custom_finding"

-----------------------------------------------------------------------------
(* C2 *)

\* the type of the finding is a key of neither lookup table, or is absent
Unrecognized(vuln) ==
    VulnGet(vuln, "type", "unknown")
        \notin (DOMAIN VULNERABILITY_LAYER_MAPPING \cup DOMAIN CORE_THREAT_MATRIX)

\* the finding at position i is in the L7_ECOSYSTEM list and in no other
InEcosystemOnly(v) ==
    /\ Count(vulnerabilities_by_layer[L7_ECOSYSTEM], v) = Count(vulnerabilities, v)
    /\ \A l \in MAESTROLayer \ {L7_ECOSYSTEM} : v \notin Range(vulnerabilities_by_layer[l])

\* the four values the estimator's distributions are built from, for the finding
\* at position i of the assessed list
EstimatorTuple(i) ==
    [ac     |-> ThreatValues(vulnerabilities, "ac")[i],
     impact |-> ThreatValues(vulnerabilities, "impact")[i],
     vs     |-> ThreatValues(vulnerabilities, "vs")[i],
     pc     |-> ThreatValues(vulnerabilities, "pc")[i]]

\* the means of the estimator's four distributions for the list of one finding
EstimatorMeans(v) ==
    [ac     |-> GetAttackComplexityDistribution(<<v>>).mean,
     impact |-> GetImpactDistribution(<<v>>).mean,
     vs     |-> GetVulnerabilitySeverityDistribution(<<v>>).mean,
     pc     |-> GetProtocolCouplingDistribution(<<v>>).mean]

\* C2 as stated: an unrecognized finding is classified into L7_ECOSYSTEM and gets
\* ac = 2, impact = 3, vs = 5, pc = 2 in the estimator's distributions and in the
\* calculator's layer scores (attack complexity 2, contribution 5 * 2 * exposure).
C2_Original ==
    Scored =>
        \A i \in DOMAIN vulnerabilities :
            LET v == vulnerabilities[i]
            IN  Unrecognized(v) =>
                  /\ InEcosystemOnly(v)
                  /\ EstimatorTuple(i) = [ac |-> 2, impact |-> 3, vs |-> 5, pc |-> 2]
                  /\ (vulnerabilities = <<v>> =>
                        /\ layer_scores[L7_ECOSYSTEM].attack_complexity = RInt(2)
                        /\ layer_scores[L7_ECOSYSTEM].rps_contribution
                              = RMul(RInt(5 * 2), MAESTRO_EXPOSURE_INDEX[L7_ECOSYSTEM]))

\* C2 amended: an unrecognized finding is classified into L7_ECOSYSTEM and gets
\* ac = 2, impact = 3, vs = 5, pc = 2 in the four distributions of the estimator;
\* the calculator's layer scores take its attack complexity from its severity
\* (critical 1, high 2, otherwise 3), its severity score from the severity scale
\* (4 for a missing or unknown severity) and its coupling as 1.
C2_Amended ==
    Scored =>
        \A i \in DOMAIN vulnerabilities :
            LET v   == vulnerabilities[i]
                sev == VulnGet(v, "severity", "medium")
                ac  == IF sev = "critical" THEN 1 ELSE IF sev = "high" THEN 2 ELSE 3
                vs  == IF sev \in DOMAIN VULNERABILITY_SEVERITY_SCALE
                       THEN VULNERABILITY_SEVERITY_SCALE[sev] ELSE 4
            IN  Unrecognized(v) =>
                  /\ InEcosystemOnly(v)
                  /\ EstimatorTuple(i) = [ac |-> 2, impact |-> 3, vs |-> 5, pc |-> 2]
                  /\ EstimatorMeans(v) =
                        [ac |-> RInt(2), impact |-> RInt(3), vs |-> RInt(5), pc |-> RInt(2)]
                  /\ (vulnerabilities = <<v>> =>
                        /\ layer_scores[L7_ECOSYSTEM].attack_complexity = RInt(ac)
                        /\ layer_scores[L7_ECOSYSTEM].rps_contribution
                              = RMul(RInt(vs * 1), MAESTRO_EXPOSURE_INDEX[L7_ECOSYSTEM]))

\* a single critical finding of an unmapped type, scored with attack complexity 1
C2_Witness ==
    /\ pc = "scored"
    /\ vulnerabilities = <<Vuln("custom_finding", "critical")>>
    /\ vulnerabilities_by_layer[L7_ECOSYSTEM] = vulnerabilities
    /\ layer_scores[L7_ECOSYSTEM].attack_complexity = RInt(1)

-----------------------------------------------------------------------------
(* C3 *)

\* 100 * (0.7 * wei + 0.3 * rps / 30) for wei a multiple of 1/10 and rps an integer
CombinedHundredths == 7 * total_wei.n * (10 \div total_wei.d) + total_rps.n

-----------------------------------------------------------------------------
(* C4 *)

\* C4: an assessment of a workflow with at least one step and no vulnerability
\* returns risk_level "low".
C4_EmptyIsLow ==
    (pc = "done" /\ Len(workflow.steps) >= 1 /\ vulnerabilities = <<>>)
        => result.risk_level = "low"

-----------------------------------------------------------------------------
(* C5 *)

\* C5: total_wei is the sum of the 7 WEI contributions divided by max(node count, 1),
\* well defined also for 0 nodes, and total_rps is the plain sum of the 7 RPS
\* contributions.
C5_Totals ==
    pc \in {"rps", "level", "recommended", "done"} =>
        LET n == Len(workflow.steps)
            wei_sum == RSum([l \in MAESTROLayer |-> layer_scores[l].wei_contribution], 1, 7)
            rps_sum == RSum([l \in MAESTROLayer |-> layer_scores[l].rps_contribution], 1, 7)
        IN  /\ total_wei.d > 0
            /\ RMul(total_wei, RInt(IF n >= 1 THEN n ELSE 1)) = wei_sum
            /\ total_rps = rps_sum

\* a workflow of 0 steps with findings: the totals are computed, dividing by 1
C5_Witness ==
    /\ pc = "rps"
    /\ Len(workflow.steps) = 0
    /\ Len(vulnerabilities) = 2
    /\ RGt(total_rps, RInt(0))
    /\ RGt(total_wei, RInt(0))

-----------------------------------------------------------------------------
(* C6 *)

\* C6: every layer's WEI contribution is (1/ac) * impact * weight with ac in [1, 3]
\* (3 for a layer without vulnerabilities), so max(ac, 0.1) = ac, and the
\* contribution is finite and strictly positive.
C6_WeiContribution ==
    Scored =>
        \A l \in MAESTROLayer :
            LET s == layer_scores[l]
            IN  /\ RLeq(RInt(1), s.attack_complexity)
                /\ RLeq(s.attack_complexity, RInt(3))
                /\ (vulnerabilities_by_layer[l] = <<>> => s.attack_complexity = RInt(3))
                /\ RMax(s.attack_complexity, R(1, 10)) = s.attack_complexity
                /\ RMul(s.wei_contribution, s.attack_complexity)
                      = RMul(s.business_impact, MAESTRO_LAYER_WEIGHTS[l])
                /\ s.wei_contribution.d > 0
                /\ s.wei_contribution.n > 0

\* a layer holding two findings whose complexities 3 and 2 average to 5/2
C6_Witness ==
    /\ pc = "scored"
    /\ layer_scores[L7_ECOSYSTEM].vulnerability_count = 2
    /\ layer_scores[L7_ECOSYSTEM].attack_complexity = R(5, 2)

-----------------------------------------------------------------------------
(* C10 *)

\* critical findings of every mapped type, of two unmapped types and of no type
CriticalFindings ==
    {Vuln(t, "critical") :
        t \in DOMAIN VULNERABILITY_LAYER_MAPPING
                \cup {"model_extraction", "custom_finding", Absent}}

-----------------------------------------------------------------------------
(* C7 *)

\* C7: any two finished calls of estimate_vulnerability_parameters with the same
\* vulnerabilities, seed and N, on the same or on different estimator instances,
\* returned the same samples and summaries.
C7_SameInputsSameOutputs ==
    \A e1 \in EstimatorIds, e2 \in EstimatorIds :
        \A i \in DOMAIN estimators[e1].calls, j \in DOMAIN estimators[e2].calls :
            (/\ estimators[e1].params = estimators[e2].params
             /\ estimators[e1].calls[i].vulns = estimators[e2].calls[j].vulns)
                => estimators[e1].calls[i].results = estimators[e2].calls[j].results

-----------------------------------------------------------------------------
(* C8 *)

-----------------------------------------------------------------------------
(* C9 *)

\* what an assessment with this seed and these findings obtains when run alone
AloneResults(params, vulns) ==
    EstimateVulnerabilityParameters(SeedState(params.random_seed), params, vulns).results

\* C9: whatever the interleaving of two assessments, each finished estimate holds
\* exactly the samples and summaries the assessment obtains when run alone.
C9_Isolation ==
    \A e \in EstimatorIds :
        \A i \in DOMAIN estimators[e].calls :
            estimators[e].calls[i].results
                = AloneResults(estimators[e].params, estimators[e].calls[i].vulns)

-----------------------------------------------------------------------------
(* C11 *)

\* C11: the assessment of a workflow of 10 nodes with exactly one critical finding
\* classified into each of the 7 layers returns risk_level "critical": its combined
\* score 0.7 * total_wei + 0.3 * total_rps / 30 is at least the critical threshold.
C11_ScenarioBCritical ==
    (/\ pc = "done"
     /\ Len(workflow.steps) = 10
     /\ \A l \in MAESTROLayer :
           /\ Len(result.vulnerabilities_by_layer[l]) = 1
           /\ result.vulnerabilities_by_layer[l][1].severity = "critical")
        => /\ result.risk_level = "critical"
           /\ RGeq(CombinedRisk(result.total_wei, result.total_rps),
                   risk_thresholds.critical)

-----------------------------------------------------------------------------
(* C12 *)

\* |a - b| <= 1e-6
Within1e6(a, b) ==
    /\ RLeq(RSub(a, b), R(1, 1000000))
    /\ RLeq(RSub(b, a), R(1, 1000000))

\* C12: the built-in configuration is valid: there is a weight and an exposure index
\* for each of the 7 layers, the weights sum to 1.0 within 1e-6, every exposure index
\* lies in [0, 1], and the calculator's thresholds and those of the CLI summary are
\* strictly increasing, T_med < T_high < T_crit.
C12_ValidConfiguration ==
    /\ DOMAIN MAESTRO_LAYER_WEIGHTS = MAESTROLayer
    /\ DOMAIN MAESTRO_EXPOSURE_INDEX = MAESTROLayer
    /\ Within1e6(RSum(MAESTRO_LAYER_WEIGHTS, 1, 7), RInt(1))
    /\ \A l \in MAESTROLayer :
          /\ RLeq(RInt(0), MAESTRO_EXPOSURE_INDEX[l])
          /\ RLeq(MAESTRO_EXPOSURE_INDEX[l], RInt(1))
    /\ RLt(risk_thresholds.medium, risk_thresholds.high)
    /\ RLt(risk_thresholds.high, risk_thresholds.critical)
    /\ RLt(display_summary_thresholds.medium, display_summary_thresholds.high)
    /\ RLt(display_summary_thresholds.high, display_summary_thresholds.critical)

\* an assessment classified with the calculator's thresholds as high, whose scores
\* the CLI summary's thresholds put in the critical band
C12_Witness ==
    /\ pc = "done"
    /\ risk_thresholds = RiskCalculatorInit
    /\ result.risk_level = "high"
    /\ DisplaySummaryRiskLevel(result.total_wei, result.total_rps) = "CRITICAL RISK"

-----------------------------------------------------------------------------
(* C13 *)

\* C13: the configuration in force is valid whenever the engine is constructed and
\* whenever it has assessed: layer weights that do not sum to 1 (within 1e-6) are
\* rejected, never stored and never present when a score is computed.
C13_InvalidRejected ==
    Within1e6(RSum(custom_parameters.layer_weights, 1, 7), RInt(1))

-----------------------------------------------------------------------------
(* C14 *)

\* C14: once the vulnerabilities are grouped, every vulnerability whose type is not a
\* key of the layer mapping, and so was put into L7_ECOSYSTEM by the fallback, has a
\* warning-level log record naming it (the modelled code keeps no counters, so a log
\* record is the only way the fallback can be observed).
C14_FallbackObservable ==
    Grouped =>
        \A i \in DOMAIN vulnerabilities :
            VulnGet(vulnerabilities[i], "type", "unknown")
                    \notin DOMAIN VULNERABILITY_LAYER_MAPPING
                => \E k \in DOMAIN log_records :
                       /\ log_records[k].level = "WARNING"
                       /\ log_records[k].vulnerability = vulnerabilities[i]

-----------------------------------------------------------------------------
(* C15 *)

\* the MonteCarloResult of the k-th simulated parameter
ResultAt(results, k) ==
    CASE k = 1 -> results.attack_complexity
      [] k = 2 -> results.impact
      [] k = 3 -> results.vulnerability_severity
      [] k = 4 -> results.protocol_coupling

\* lo <= x <= hi for a sample x of a distribution of variance var
XWithin(x, lo, hi, var) ==
    /\ ~XLess(x, X(lo, RInt(0)), var)
    /\ ~XLess(X(hi, RInt(0)), x, var)

\* C15: each of the four sample vectors of a finished estimate has exactly
\* n_simulations entries, every entry lies within the bounds of the distribution
\* it was drawn from, and every attack-complexity sample is at least 1.0 (at least
\* 2.5 for an empty vulnerability list), hence strictly positive.
C15_SamplesClamped ==
    \A e \in EstimatorIds :
        \A i \in DOMAIN estimators[e].calls :
            LET call == estimators[e].calls[i]
            IN  /\ \A k \in 1..4 :
                      LET d       == call.distributions[k]
                          samples == ResultAt(call.results, k).samples
                      IN  /\ Len(samples) = estimators[e].params.n_simulations
                          /\ \A j \in DOMAIN samples :
                                XWithin(samples[j], d.lower_bound, d.upper_bound,
                                        d.std_dev_sq)
                /\ \A j \in DOMAIN call.results.attack_complexity.samples :
                      LET x   == call.results.attack_complexity.samples[j]
                          var == call.distributions[1].std_dev_sq
                      IN  /\ ~XLess(x, X(RInt(1), RInt(0)), var)
                          /\ XLess(X(RInt(0), RInt(0)), x, var)
                          /\ (call.vulns = <<>> => ~XLess(x, X(R(25, 10), RInt(0)), var))

\* an estimate of one prompt_injection finding (attack complexity 1, severity 9)
\* with an attack-complexity draw clamped to the lower bound 1.0 and a severity draw
\* clamped to the upper bound 10.0
C15_Witness ==
    /\ Len(estimators["A"].calls) = 1
    /\ estimators["A"].calls[1].vulns = <<Vuln("prompt_injection", "high")>>
    /\ \E j \in 1..NSim :
          estimators["A"].calls[1].results.attack_complexity.samples[j]
              = X(RInt(1), RInt(0))
    /\ \E j \in 1..NSim :
          estimators["A"].calls[1].results.vulnerability_severity.samples[j]
              = X(RInt(10), RInt(0))

-----------------------------------------------------------------------------
(* C16 *)

\* the squares of the floors 0.3, 0.5, 1.0 and 0.3 of the four parameters
FloorSq(k) ==
    CASE k = 1 -> R(9, 100)
      [] k = 2 -> R(1, 4)
      [] k = 3 -> R(1, 1)
      [] k = 4 -> R(9, 100)

\* the key of the k-th parameter in a row of the threat matrix
ParameterKey(k) ==
    CASE k = 1 -> "ac"
      [] k = 2 -> "impact"
      [] k = 3 -> "vs"
      [] k = 4 -> "pc"

\* C16: for a non-empty vulnerability list the standard deviation of each of the
\* four distributions is at least the parameter's floor (0.3, 0.5, 1.0, 0.3), equals
\* the floor when the list has one vulnerability or all its table values of the
\* parameter are equal, and is not zero.
C16_StdDevFloor ==
    \A e \in EstimatorIds :
        \A i \in DOMAIN estimators[e].calls :
            LET call == estimators[e].calls[i]
            IN  call.vulns # <<>> =>
                  \A k \in 1..4 :
                      LET d      == call.distributions[k]
                          values == ThreatValues(call.vulns, ParameterKey(k))
                      IN  /\ RGeq(d.std_dev_sq, FloorSq(k))
                          /\ RGt(d.std_dev_sq, RInt(0))
                          /\ (Len(call.vulns) = 1 \/ Cardinality(Range(values)) = 1)
                                => d.std_dev_sq = FloorSq(k)

\* an estimate of two findings of equal coupling 2 (the floor 0.3 applies), of
\* attack complexities 3 and 2 (standard deviation 0.5, above the floor 0.3) and of
\* impacts 5 and 3 (standard deviation 1.0, above the floor 0.5)
C16_Witness ==
    /\ Len(estimators["A"].calls) = 1
    /\ estimators["A"].calls[1].vulns
          = <<Vuln("sandbox_escape", "critical"), Vuln("custom_finding", "medium")>>
    /\ estimators["A"].calls[1].distributions[1].std_dev_sq = R(1, 4)
    /\ estimators["A"].calls[1].distributions[2].std_dev_sq = R(1, 1)
    /\ estimators["A"].calls[1].distributions[4].std_dev_sq = R(9, 100)

-----------------------------------------------------------------------------
(* C17 *)

\* the distributions of an empty vulnerability list: attack complexity, impact,
\* severity, coupling
NoEvidence ==
    <<UncertaintyDistribution(R(3, 1), R(9, 100), R(25, 10), R(3, 1)),
      UncertaintyDistribution(R(15, 10), R(1, 4), R(1, 1), R(25, 10)),
      UncertaintyDistribution(R(2, 1), R(1, 1), R(1, 1), R(4, 1)),
      UncertaintyDistribution(R(12, 10), R(9, 100), R(1, 1), R(2, 1))>>

\* C17: an estimate of an empty vulnerability list returns its four results without
\* an error and from the fixed distributions (attack complexity mean 3.0, std 0.3,
\* bounds [2.5, 3.0]; impact 1.5, 0.5, [1.0, 2.5]; severity 2.0, 1.0, [1.0, 4.0];
\* coupling 1.2, 0.3, [1.0, 2.0]): every sample is greater than zero, the attack
\* complexity samples lie in [2.5, 3.0], and the upper bounds of impact, severity
\* and coupling are below those of a non-empty list (5.0, 10.0, 3.0).
C17_EmptyListNoEvidence ==
    \A e \in EstimatorIds :
        \A i \in DOMAIN estimators[e].calls :
            LET call == estimators[e].calls[i]
            IN  call.vulns = <<>> =>
                  /\ DOMAIN call.results = {"attack_complexity", "impact",
                                            "vulnerability_severity", "protocol_coupling"}
                  /\ call.distributions = NoEvidence
                  /\ \A k \in 1..4 :
                        LET samples == ResultAt(call.results, k).samples
                        IN  /\ Len(samples) = estimators[e].params.n_simulations
                            /\ \A j \in DOMAIN samples :
                                  XLess(X(RInt(0), RInt(0)), samples[j],
                                        NoEvidence[k].std_dev_sq)
                  /\ \A j \in DOMAIN call.results.attack_complexity.samples :
                        XWithin(call.results.attack_complexity.samples[j],
                                R(25, 10), RInt(3), R(9, 100))
                  /\ \A v \in DistVulns : \A k \in 2..4 :
                        RLt(call.distributions[k].upper_bound,
                            DistributionAt(k, <<v>>).upper_bound)

\* an estimate of the empty list with an attack-complexity draw above 3.0, clamped
\* to it, and one below 2.5, clamped to it
C17_Witness ==
    /\ Len(estimators["A"].calls) = 1
    /\ estimators["A"].calls[1].vulns = <<>>
    /\ \E j \in 1..NSim :
          estimators["A"].calls[1].results.attack_complexity.samples[j]
              = X(RInt(3), RInt(0))
    /\ \E j \in 1..NSim :
          estimators["A"].calls[1].results.attack_complexity.samples[j]
              = X(R(25, 10), RInt(0))

-----------------------------------------------------------------------------
(* C18 *)

\* C18: whatever the type and severity values of the vulnerability records, unknown,
\* missing or of any other kind, calculate_risk does not raise, and the risk level
\* it returns is one of low, medium, high and critical.
C18_NeverRaises ==
    /\ pc # "raised"
    /\ pc = "done" => /\ "raised" \notin DOMAIN result
                      /\ result.risk_level \in {"low", "medium", "high", "critical"}

-----------------------------------------------------------------------------
(* C19 *)

\* the number of input vulnerabilities classified into layer l
ClassifiedInto(l) ==
    Cardinality({i \in DOMAIN vulnerabilities : LayerOfVuln(vulnerabilities[i]) = l})

\* C19: the layer scores hold exactly one LayerRiskScore for each of the 7 layers,
\* the vulnerability_count of each is the number of input vulnerabilities classified
\* into its layer, the counts are not negative and sum to the length of the input;
\* the returned result holds these layer scores.
C19_OneScorePerLayer ==
    /\ Scored =>
          /\ DOMAIN layer_scores = MAESTROLayer
          /\ \A l \in MAESTROLayer :
                /\ layer_scores[l].layer = l
                /\ layer_scores[l].vulnerability_count = ClassifiedInto(l)
                /\ layer_scores[l].vulnerability_count >= 0
          /\ SumSeq([l \in 1..7 |-> layer_scores[l].vulnerability_count])
                = Len(vulnerabilities)
    /\ pc = "done" => result.layer_scores = layer_scores

\* a result for two findings, one counted in L1 and one, of an unmapped type, in L7
C19_Witness ==
    /\ pc = "done"
    /\ Len(vulnerabilities) = 2
    /\ result.layer_scores[L1_FOUNDATION_MODELS].vulnerability_count = 1
    /\ result.layer_scores[L7_ECOSYSTEM].vulnerability_count = 1
    /\ result.layer_scores[L3_AGENT_FRAMEWORKS].vulnerability_count = 0
    /\ \E i \in 1..2 : vulnerabilities[i].type = "custom_finding"

-----------------------------------------------------------------------------
(* C20 *)

\* recs names the layers in the order of descending contribution: the layers whose
\* texts it holds have vulnerabilities and fewer than 3 layers of greater
\* wei_contribution + rps_contribution, every layer with vulnerabilities that fewer
\* than 3 other layers equal or exceed is among them, a layer of greater contribution
\* comes first, and the general texts come last
RankedByContribution(recs, scores, vbl) ==
    LET Key(l)     == ContributionKey(scores[l])
        Present(l) == layer_recommendations[l][1] \in Range(recs)
        Pos(l)     == CHOOSE i \in DOMAIN recs : recs[i] = layer_recommendations[l][1]
    IN  /\ \A l \in MAESTROLayer :
              Present(l) =>
                  /\ vbl[l] # <<>>
                  /\ Cardinality({m \in MAESTROLayer : RGt(Key(m), Key(l))}) < 3
                  /\ recs[Pos(l) + 1] = layer_recommendations[l][2]
        /\ \A l \in MAESTROLayer :
              (/\ vbl[l] # <<>>
               /\ Cardinality({m \in MAESTROLayer \ {l} : RGeq(Key(m), Key(l))}) < 3)
                  => Present(l)
        /\ \A a \in MAESTROLayer, b \in MAESTROLayer :
              (Present(a) /\ Present(b) /\ RGt(Key(a), Key(b))) => Pos(a) < Pos(b)
        /\ Len(recs) >= 4
        /\ SubSeq(recs, Len(recs) - 3, Len(recs)) = general_recommendations

\* C20: the step that generates the recommendations ranks the layers by
\* wei_contribution + rps_contribution in descending order and leaves layer_scores,
\* vulnerabilities_by_layer, total_wei, total_rps and risk_level as they were.
C20_RecommendationsReadOnly ==
    [][pc = "level" =>
          /\ layer_scores' = layer_scores
          /\ vulnerabilities_by_layer' = vulnerabilities_by_layer
          /\ total_wei' = total_wei
          /\ total_rps' = total_rps
          /\ risk_level' = risk_level
          /\ RankedByContribution(recommendations', layer_scores,
                                  vulnerabilities_by_layer)]_vars

\* recommendations for findings in all 7 layers: the texts of three layers and the
\* general ones, none for the layer of least contribution
C20_Witness ==
    /\ pc = "recommended"
    /\ \A l \in MAESTROLayer : vulnerabilities_by_layer[l] # <<>>
    /\ Len(recommendations) = 10
    /\ \E l \in MAESTROLayer :
          /\ layer_recommendations[l][1] \notin Range(recommendations)
          /\ \A m \in MAESTROLayer :
                RLeq(ContributionKey(layer_scores[l]), ContributionKey(layer_scores[m]))

-----------------------------------------------------------------------------
(* C21 *)

\* the band named by a text that display_summary prints
BandOfText(text) ==
    CASE text = "CRITICAL RISK" -> "critical"
      [] text = "HIGH RISK"     -> "high"
      [] text = "MEDIUM RISK"   -> "medium"
      [] text = "LOW RISK"      -> "low"

\* C21: for every (WEI, RPS) pair the band that display_summary derives from the
\* scores is the band that _determine_risk_level assigns to the pair.
C21_DisplayConsistent ==
    pc = "level" =>
        BandOfText(DisplaySummaryRiskLevel(total_wei, total_rps)) = risk_level

-----------------------------------------------------------------------------
(* C22 *)

\* the severity score of the claim: 1, 2, 4, 7, 10 for the five severities, 4 for a
\* missing or unrecognized one
SeverityOf(vuln) ==
    CASE vuln.severity = "info"     -> 1
      [] vuln.severity = "low"      -> 2
      [] vuln.severity = "medium"   -> 4
      [] vuln.severity = "high"     -> 7
      [] vuln.severity = "critical" -> 10
      [] OTHER                      -> 4

\* VS * PC * EI of the input finding i if it is classified into layer l, else 0
RpsTerm(i, l) ==
    IF LayerOfVuln(vulnerabilities[i]) = l
    THEN RMul(RInt(SeverityOf(vulnerabilities[i])
                     * EstimateProtocolCoupling(vulnerabilities[i])),
              MAESTRO_EXPOSURE_INDEX[l])
    ELSE R(0, 1)

\* C22: the RPS contribution of every layer is the sum, over the input
\* vulnerabilities classified into it, of severity score (1-10, 4 when unrecognized)
\* times coupling factor (1, 2 or 3) times the layer's exposure index; it is exactly
\* 0 for a layer without vulnerabilities and never negative.
C22_RpsContribution ==
    Scored =>
        \A l \in MAESTROLayer :
            /\ layer_scores[l].rps_contribution
                  = RSumSeq([i \in 1..Len(vulnerabilities) |-> RpsTerm(i, l)])
            /\ vulnerabilities_by_layer[l] = <<>>
                  => layer_scores[l].rps_contribution = R(0, 1)
            /\ RGeq(layer_scores[l].rps_contribution, R(0, 1))
            /\ \A i \in 1..Len(vulnerabilities) :
                  /\ SeverityOf(vulnerabilities[i]) \in 1..10
                  /\ EstimateProtocolCoupling(vulnerabilities[i]) \in {1, 2, 3}

\* a finding of unrecognized severity scored 4 * 1 * 0.2 in L7, one of high coupling
\* scored 7 * 3 * 0.45 in L3, and a layer without findings scored 0
C22_Witness ==
    /\ pc = "scored"
    /\ vulnerabilities = <<Vuln(Absent, "urgent"), Vuln("tool_poisoning", "high")>>
    /\ layer_scores[L7_ECOSYSTEM].rps_contribution = R(4, 5)
    /\ layer_scores[L3_AGENT_FRAMEWORKS].rps_contribution = R(189, 20)
    /\ layer_scores[L1_FOUNDATION_MODELS].rps_contribution = R(0, 1)

-----------------------------------------------------------------------------
(* C23 *)

\* x <= y for two values of a distribution of variance var
XLeq(x, y, var) == ~XLess(y, x, var)

\* C23: for every MonteCarloResult produced with confidence level 0.95,
\* confidence_interval is the pair (2.5th percentile, 97.5th percentile) of the
\* result's own samples, lower <= p5 <= p25 <= p50 <= p75 <= p95 <= upper, and all of
\* these values and the mean lie within the bounds of the sampled distribution.
C23_IntervalAndPercentiles ==
    \A e \in EstimatorIds :
        \A i \in DOMAIN estimators[e].calls :
            \A k \in 1..4 :
                LET d      == estimators[e].calls[i].distributions[k]
                    res    == ResultAt(estimators[e].calls[i].results, k)
                    var    == d.std_dev_sq
                    sorted == XSorted(res.samples, var)
                    chain  == <<res.confidence_interval[1], res.percentiles[5],
                                res.percentiles[25], res.percentiles[50],
                                res.percentiles[75], res.percentiles[95],
                                res.confidence_interval[2]>>
                IN  estimators[e].params.confidence_interval = R(95, 100) =>
                        /\ res.confidence_interval[1] = Percentile(sorted, R(25, 10))
                        /\ res.confidence_interval[2] = Percentile(sorted, R(975, 10))
                        /\ \A j \in 1..6 : XLeq(chain[j], chain[j + 1], var)
                        /\ \A j \in 1..7 :
                              XWithin(chain[j], d.lower_bound, d.upper_bound, var)
                        /\ XWithin(res.mean, d.lower_bound, d.upper_bound, var)

\* a result whose samples differ: the interval is strictly wider than p5..p95 and
\* the median lies strictly between the quartiles
C23_Witness ==
    /\ Len(estimators["A"].calls) = 1
    /\ estimators["A"].params.confidence_interval = R(95, 100)
    /\ \E k \in 1..4 :
          LET res == ResultAt(estimators["A"].calls[1].results, k)
              var == estimators["A"].calls[1].distributions[k].std_dev_sq
          IN  /\ XLess(res.confidence_interval[1], res.percentiles[5], var)
              /\ XLess(res.percentiles[25], res.percentiles[50], var)
              /\ XLess(res.percentiles[50], res.percentiles[75], var)
              /\ XLess(res.percentiles[95], res.confidence_interval[2], var)

-----------------------------------------------------------------------------
(* C24 *)

\* the layers one of whose texts is among the first n entries of recs
LayersNamed(recs, n) ==
    {l \in MAESTROLayer :
        \E i \in 1..n : \E j \in DOMAIN layer_recommendations[l] :
            recs[i] = layer_recommendations[l][j]}

\* C24: the recommendation list has between 4 and 10 entries: at most 2
\* layer-specific entries for each of at most 3 layers, all of them layers among the
\* top three by contribution that hold a vulnerability, followed by the four general
\* recommendations in their fixed order; the cut to 10 removes nothing.
C24_RecommendationShape ==
    pc \in {"recommended", "done"} =>
        LET recs  == recommendations
            n     == Len(recs) - 4
            named == LayersNamed(recs, n)
            Key(l) == ContributionKey(layer_scores[l])
        IN  /\ Len(recs) \in 4..10
            /\ SubSeq(recs, n + 1, Len(recs)) = general_recommendations
            /\ \A i \in 1..n : \E l \in MAESTROLayer :
                  \E j \in DOMAIN layer_recommendations[l] :
                      recs[i] = layer_recommendations[l][j]
            /\ Cardinality(named) <= 3
            /\ \A l \in named :
                  /\ Cardinality({i \in 1..n : \E j \in DOMAIN layer_recommendations[l] :
                                      recs[i] = layer_recommendations[l][j]}) <= 2
                  /\ vulnerabilities_by_layer[l] # <<>>
                  /\ Cardinality({m \in MAESTROLayer : RGt(Key(m), Key(l))}) < 3
            /\ pc = "done" => result.recommendations = recs

\* a returned list of the greatest length: three layers are named and the last of
\* the 10 entries is the fourth general recommendation
C24_Witness ==
    /\ pc = "done"
    /\ Len(result.recommendations) = 10
    /\ Cardinality(LayersNamed(result.recommendations, 6)) = 3
    /\ result.recommendations[10] = general_recommendations[4]

-----------------------------------------------------------------------------
(* C25 *)

\* C25: whenever the input holds at least one vulnerability, a layer that holds a
\* vulnerability ranks among the top three layers by wei_contribution +
\* rps_contribution, and the recommendations include a layer-specific entry.
C25_SomeLayerRecommended ==
    (pc \in {"recommended", "done"} /\ vulnerabilities # <<>>) =>
        /\ \E l \in MAESTROLayer :
              /\ vulnerabilities_by_layer[l] # <<>>
              /\ Cardinality({m \in MAESTROLayer \ {l} :
                     RGeq(ContributionKey(layer_scores[m]),
                          ContributionKey(layer_scores[l]))}) < 3
              /\ layer_recommendations[l][1] \in Range(recommendations)
        /\ Len(recommendations) >= 6

\* one info finding of an unmapped type in a workflow of capped business impact: the
\* empty layer L3 contributes more than the finding's RPS of 0.2, and L7 is still
\* recommended
C25_Witness ==
    /\ pc = "recommended"
    /\ vulnerabilities = <<Vuln("custom_finding", "info")>>
    /\ layer_scores[L3_AGENT_FRAMEWORKS].business_impact = R(4, 1)
    /\ RGt(ContributionKey(layer_scores[L3_AGENT_FRAMEWORKS]),
           layer_scores[L7_ECOSYSTEM].rps_contribution)
    /\ layer_recommendations[L7_ECOSYSTEM][1] \in Range(recommendations)

-----------------------------------------------------------------------------
(* C26 *)

\* the lists that hold the findings of s in another order
Reordered(s) ==
    {[i \in 1..Len(s) |-> s[f[i]]] : f \in Permutations(1..Len(s))}

\* the layer scores calculate_risk computes for the list vulns
ScoresOf(vulns) ==
    CalculateLayerScoresFloat(workflow, GroupVulnerabilitiesByLayer(vulns))

\* |a - b| for rationals
RDist(a, b) == IF RGeq(a, b) THEN RSub(a, b) ELSE RSub(b, a)

\* C26 as stated: for every permutation of the vulnerability list calculate_risk
\* computes the same layer scores, the same total_wei and total_rps, the same
\* risk_level and the same recommendations.
C26_Original ==
    Scored =>
        \A perm \in Reordered(vulnerabilities) :
            LET other == ScoresOf(perm)
                vbl   == GroupVulnerabilitiesByLayer(perm)
                wei   == CalculateMaestroWei(other, Len(workflow.steps))
                rps   == CalculateMaestroRps(other, vbl)
            IN  /\ other = layer_scores
                /\ pc \in {"wei", "rps", "level", "recommended", "done"}
                      => wei = total_wei
                /\ pc \in {"rps", "level", "recommended", "done"} => rps = total_rps
                /\ pc \in {"level", "recommended", "done"}
                      => DetermineRiskLevel(risk_thresholds, wei, rps) = risk_level
                /\ pc \in {"recommended", "done"}
                      => GenerateRecommendations(other, vbl) = recommendations

\* C26 amended: for every permutation of the vulnerability list the per-layer
\* vulnerability counts, attack complexity, business impact and WEI contributions
\* and total_wei are the same; the RPS contribution of a layer is the same if the
\* layer holds at most two findings, and otherwise differs by at most the rounding
\* of its additions, (n - 1) * 2^(1 - MantissaBits) times the contribution for n
\* findings.
C26_Amended ==
    /\ pc = "scored" =>
          \A perm \in Reordered(vulnerabilities) :
              LET other == ScoresOf(perm)
              IN  \A l \in MAESTROLayer :
                      LET a == layer_scores[l]
                          b == other[l]
                          n == a.vulnerability_count
                          greater == RMax(a.rps_contribution, b.rps_contribution)
                      IN  /\ b.vulnerability_count = n
                          /\ b.attack_complexity = a.attack_complexity
                          /\ b.business_impact = a.business_impact
                          /\ b.wei_contribution = a.wei_contribution
                          /\ n <= 2 => b.rps_contribution = a.rps_contribution
                          /\ n > 2 =>
                                RLeq(RMul(RDist(a.rps_contribution, b.rps_contribution),
                                          RInt(Pow2(MantissaBits - 1))),
                                     RMul(RInt(n - 1), greater))
    /\ pc = "wei" =>
          \A perm \in Reordered(vulnerabilities) :
              CalculateMaestroWei(ScoresOf(perm), Len(workflow.steps)) = total_wei

\* a returned assessment of three findings of one layer whose RPS contribution, and
\* with it total_rps, is another for the same findings in another order
C26_Witness ==
    /\ pc = "done"
    /\ Len(vulnerabilities_by_layer[L1_FOUNDATION_MODELS]) = 3
    /\ \E perm \in Reordered(vulnerabilities) :
          /\ ScoresOf(perm)[L1_FOUNDATION_MODELS].rps_contribution
                # layer_scores[L1_FOUNDATION_MODELS].rps_contribution
          /\ CalculateMaestroRps(ScoresOf(perm), GroupVulnerabilitiesByLayer(perm))
                # result.total_rps

-----------------------------------------------------------------------------
(* C27 *)

\* C27: every input vulnerability whose type has an entry in CORE_THREAT_MATRIX is
\* classified into the layer recorded in that entry.
C27_TablesAgree ==
    Grouped =>
        \A i \in DOMAIN vulnerabilities :
            LET vuln_type == VulnGet(vulnerabilities[i], "type", "unknown")
            IN  vuln_type \in DOMAIN CORE_THREAT_MATRIX =>
                    vulnerabilities[i] \in
                        Range(vulnerabilities_by_layer[CORE_THREAT_MATRIX[vuln_type].layer])

-----------------------------------------------------------------------------
(* C28 *)

\* the place of a band in the order low < medium < high < critical
BandRank(level) ==
    CASE level = "low"      -> 0
      [] level = "medium"   -> 1
      [] level = "high"     -> 2
      [] level = "critical" -> 3

\* C28: the pair (total_wei, total_rps) receives exactly one of the four bands, and
\* every pair that is at least as great in both scores receives a band that is not
\* lower.
C28_Monotone ==
    pc = "level" =>
        /\ risk_level \in {"low", "medium", "high", "critical"}
        /\ \A a \in 0..MaxWeiTenths : \A r \in 0..MaxRps :
              (RLeq(total_wei, R(a, 10)) /\ RLeq(total_rps, RInt(r))) =>
                  BandRank(risk_level)
                      <= BandRank(DetermineRiskLevel(risk_thresholds, R(a, 10), RInt(r)))

\* a pair classified medium with a smaller pair classified low and greater pairs
\* classified high and critical
C28_Witness ==
    /\ pc = "level"
    /\ total_wei = R(3, 10)
    /\ total_rps = RInt(29)
    /\ risk_level = "medium"
    /\ DetermineRiskLevel(risk_thresholds, R(3, 10), RInt(8)) = "low"
    /\ DetermineRiskLevel(risk_thresholds, R(4, 10), RInt(29)) = "high"
    /\ DetermineRiskLevel(risk_thresholds, R(4, 10), RInt(50)) = "critical"

-----------------------------------------------------------------------------
(* C29 *)

\* C29: whatever a Save Custom Parameters or Reset to Defaults stores, the stored
\* layer weights sum to 1.0 within 1e-6; a Save with any other sum leaves the
\* stored custom_parameters unchanged.
C29_OnlyValidStored ==
    [][custom_parameters' # custom_parameters
          => Within1e6(RSum(custom_parameters'.layer_weights, 1, 7), RInt(1))]_vars

-----------------------------------------------------------------------------
(* C30 *)

\* total_wei of a report's layer scores under the layer weights `weights`
WeiWith(report, weights) ==
    LET scores == report.risk_assessment.layer_scores
    IN  RDiv(RSum([l \in MAESTROLayer |->
                      RMul(RMul(RDiv(R(1, 1), RMax(scores[l].attack_complexity, R(1, 10))),
                                scores[l].business_impact),
                           weights[l])], 1, 7),
             RInt(Max(Len(report.workflow.steps), 1)))

\* total_rps of a report's vulnerabilities under the exposure indices `exposure`
RpsWith(report, exposure) ==
    LET vbl == report.risk_assessment.vulnerabilities_by_layer
    IN  RSum([l \in MAESTROLayer |->
                 RSumSeq([i \in 1..Len(vbl[l]) |->
                     RMul(RInt(SeverityScore(vbl[l][i]) * EstimateProtocolCoupling(vbl[l][i])),
                          exposure[l])])], 1, 7)

\* C30: a Run MAESTRO Assessment computes WEI, RPS and the risk level with the
\* layer weights and exposure indices stored in custom_parameters.
C30_CustomParametersApplied ==
    [][reports' # reports =>
          LET report == reports'[Len(reports')].report
          IN  "risk_assessment" \in DOMAIN report =>
                  LET wei == WeiWith(report, custom_parameters.layer_weights)
                      rps == RpsWith(report, custom_parameters.exposure_index)
                  IN  /\ report.risk_assessment.total_wei = wei
                      /\ report.risk_assessment.total_rps = rps
                      /\ report.risk_assessment.risk_level
                            = DetermineRiskLevel(risk_thresholds', wei, rps)]_vars

====
